---- MODULE Spec2Model ----
(***************************************************************************)
(* Darkweb monitor (zaq2989/darkweb-monitor-jp-alert): the detection and   *)
(* alerting pipeline (core/analyzer.py, core/alert_engine.py) and the two  *)
(* cycle orchestrators (scripts/start_monitoring.py, DarkwebMonitor, and   *)
(* scripts/start_monitoring_free.py, FreeAPIMonitor).                      *)
(*                                                                         *)
(* Python str values are TLA+ strings; a character is a string of length   *)
(* one.  Python None is the record None.  A dict is a TLA+ function whose  *)
(* DOMAIN is the set of keys that are present.                             *)
(***************************************************************************)
EXTENDS Integers, Sequences, FiniteSets, TLC

(***************************************************************************)
(* Python built-ins used by the code                                       *)
(***************************************************************************)
None == [none |-> TRUE]

Char(s, i) == SubSeq(s, i, i)

Range(f) == {f[i] : i \in DOMAIN f}

\* dict.get(key, default)
Get(d, k, default) == IF k \in DOMAIN d THEN d[k] ELSE default

UpperChars == "ABCDEFGHIJKLMNOPQRSTUVWXYZ"

LowerChars == "abcdefghijklmnopqrstuvwxyz"

LowerChar(c) ==
    IF \E i \in 1..Len(UpperChars) : Char(UpperChars, i) = c
    THEN Char(LowerChars, CHOOSE i \in 1..Len(UpperChars) : Char(UpperChars, i) = c)
    ELSE c

RECURSIVE Lower(_)
\* str.lower()
Lower(s) ==
    IF Len(s) = 0 THEN ""
    ELSE IF Len(s) = 1 THEN LowerChar(s)
    ELSE Lower(SubSeq(s, 1, Len(s) \div 2)) \o Lower(SubSeq(s, Len(s) \div 2 + 1, Len(s)))

\* Python's  s in t  for strings
IsSubstr(s, t) == \E i \in 0..(Len(t) - Len(s)) : SubSeq(t, i + 1, i + Len(s)) = s

\* the characters str.strip() and the regex class \s remove or match
IsSpace(c) == c \in {" ", "\t", "\n", "\r", "\f"}

RECURSIVE LStrip(_)
LStrip(s) == IF Len(s) > 0 /\ IsSpace(Char(s, 1)) THEN LStrip(SubSeq(s, 2, Len(s))) ELSE s

RECURSIVE RStrip(_)
RStrip(s) == IF Len(s) > 0 /\ IsSpace(Char(s, Len(s))) THEN RStrip(SubSeq(s, 1, Len(s) - 1)) ELSE s

\* str.strip()
Strip(s) == LStrip(RStrip(s))

\* the value of a local that is computed once:  Only({F(v) : v \in {e}})  is
\* F applied to the value of e
Only(S) == CHOOSE x \in S : TRUE

Max(S) == CHOOSE x \in S : \A y \in S : y <= x

Min(S) == CHOOSE x \in S : \A y \in S : x <= y

(***************************************************************************)
(* fuzz.partial_ratio (fuzzywuzzy, pure-Python difflib.SequenceMatcher     *)
(* path), called at core/analyzer.py:133 and :148.  Scores are integers    *)
(* 0..100.  Indices below are 0-based and half-open, as in difflib.        *)
(***************************************************************************)
RECURSIVE CommonPrefixLen(_, _, _, _, _, _)
\* length of the longest k with a[i:i+k] = b[j:j+k] inside a[:ahi], b[:bhi]
CommonPrefixLen(a, b, i, j, ahi, bhi) ==
    IF i < ahi /\ j < bhi /\ Char(a, i + 1) = Char(b, j + 1)
    THEN 1 + CommonPrefixLen(a, b, i + 1, j + 1, ahi, bhi)
    ELSE 0

\* SequenceMatcher.find_longest_match: longest block, earliest in a, then earliest in b
find_longest_match(a, b, alo, ahi, blo, bhi) ==
    LET cand == {<<i, j>> : i \in alo..(ahi - 1), j \in blo..(bhi - 1)}
        len(p) == CommonPrefixLen(a, b, p[1], p[2], ahi, bhi)
        best == IF cand = {} THEN 0 ELSE Max({len(p) : p \in cand})
    IN  IF best = 0
        THEN [i |-> alo, j |-> blo, k |-> 0]
        ELSE LET bi == Min({p[1] : p \in {q \in cand : len(q) = best}})
                 bj == Min({p[2] : p \in {q \in cand : len(q) = best /\ q[1] = bi}})
             IN  [i |-> bi, j |-> bj, k |-> best]

RECURSIVE matching_blocks(_, _, _, _, _, _)
\* SequenceMatcher.get_matching_blocks without the terminating dummy block
matching_blocks(a, b, alo, ahi, blo, bhi) ==
    UNION { IF m.k = 0
            THEN {}
            ELSE {m} \cup matching_blocks(a, b, alo, m.i, blo, m.j)
                     \cup matching_blocks(a, b, m.i + m.k, ahi, m.j + m.k, bhi)
            : m \in {find_longest_match(a, b, alo, ahi, blo, bhi)} }

RECURSIVE SumK(_)
SumK(blocks) ==
    IF blocks = {} THEN 0
    ELSE LET m == CHOOSE x \in blocks : TRUE IN m.k + SumK(blocks \ {m})

\* number of matched characters of SequenceMatcher(None, a, b)
Matches(a, b) == SumK(matching_blocks(a, b, 0, Len(a), 0, Len(b)))

\* utils.intr(100 * (2.0 * m / t)): round to nearest, ties to even
Intr200(m, t) ==
    LET q == (200 * m) \div t
        r == (200 * m) % t
    IN  IF 2 * r > t THEN q + 1
        ELSE IF 2 * r < t THEN q
        ELSE IF q % 2 = 0 THEN q ELSE q + 1

\* the score of the best alignment, from the pairs <<matches, total length>>
\* of all alignments: a ratio above 0.995 ends the search with 100
BestRatio(pairs) ==
    IF \E p \in pairs : 2000 * p[1] > 995 * p[2] THEN 100
    ELSE LET best == CHOOSE p \in pairs : \A n \in pairs : n[1] * p[2] <= p[1] * n[2]
         IN  Intr200(best[1], best[2])

\* partial_ratio once the shorter string is known: one alignment of shorter
\* inside longer per matching block (the terminating dummy block included)
AlignedRatio(shorter, longer) ==
    LET blocks == matching_blocks(shorter, longer, 0, Len(shorter), 0, Len(longer))
                      \cup {[i |-> Len(shorter), j |-> Len(longer), k |-> 0]}
        start(m) == IF m.j - m.i > 0 THEN m.j - m.i ELSE 0
    IN  BestRatio({ Only({ <<Matches(shorter, sub), Len(shorter) + Len(sub)>> :
                           sub \in {SubSeq(longer, start(m) + 1,
                                           Min({Len(longer), start(m) + Len(shorter)}))} })
                    : m \in blocks })

partial_ratio(s1, s2) ==
    IF Len(s1) = 0 \/ Len(s2) = 0 THEN 0
    ELSE IF Len(s1) <= Len(s2) THEN AlignedRatio(s1, s2) ELSE AlignedRatio(s2, s1)

(***************************************************************************)
(* core/analyzer.py: DarkwebAnalyzer                                       *)
(***************************************************************************)
\* A severity pattern  head[opt]?\s*(t1|t2|...)  of severity_patterns; a
\* plain literal has opt = "", ws = FALSE and the single tail "".  The
\* Japanese literals are written in the stand-ins listed at JapaneseChars.
Pat(head, opt, ws, tails) == [head |-> head, opt |-> opt, ws |-> ws, tails |-> tails]

Lit(word) == Pat(word, "", FALSE, {""})

severity_patterns ==
    [HIGH |-> << Pat("password", "s", TRUE, {":", "=", "dump", "leak"}),
                 Pat("credential", "s", TRUE, {":", "=", "dump", "leak"}),
                 Pat("database", "", TRUE, {"dump"}),
                 Pat("sql", "", TRUE, {"dump"}),
                 Pat("admin", "", TRUE, {"access"}),
                 Pat("root", "", TRUE, {"access"}),
                 Pat("api", "", TRUE, {"key"}),
                 Pat("private", "", TRUE, {"key"}),
                 Pat("secret", "", TRUE, {"key"}),
                 Lit("01"), Lit("23"), Lit("45678"), Lit("9!") >>,
     MEDIUM |-> << Pat("email", "s", TRUE, {"list", "dump", "leak"}),
                   Pat("user", "s", TRUE, {"list", "data", "info"}),
                   Pat("employee", "s", TRUE, {"list", "data", "info"}),
                   Pat("personal", "", TRUE, {"data"}),
                   Lit("#$%&"), Lit("'()*+,;"), Lit("<>") >>,
     LOW |-> << Lit("mention"), Lit("discussion"), Lit("forum"), Lit("thread"),
                Lit("?@"), Lit("[]") >>]

StartsWithAt(t, p, w) == p + Len(w) - 1 <= Len(t) /\ SubSeq(t, p, p + Len(w) - 1) = w

\* pattern.search(text) with re.IGNORECASE: some position p, some choice of the
\* optional character and some run of n white-space characters lead to a tail
PatternSearch(pat, text) ==
    LET t == Lower(text)
    IN  \E p \in 1..(Len(t) + 1) :
          /\ StartsWithAt(t, p, pat.head)
          /\ \E o \in {"", pat.opt} :
               /\ StartsWithAt(t, p + Len(pat.head), o)
               /\ LET q == p + Len(pat.head) + Len(o)
                  IN  \E n \in 0..(IF pat.ws THEN Len(t) ELSE 0) :
                        /\ q + n - 1 <= Len(t)
                        /\ \A i \in q..(q + n - 1) : IsSpace(Char(t, i))
                        /\ \E tail \in pat.tails : StartsWithAt(t, q + n, tail)

\* Characters of the ranges 3040-309f, 30a0-30ff and 4e00-9fff are written
\* with ASCII stand-ins, one per code point (no modelled text uses a digit or
\* one of these marks as itself):
\*   0 U+6F0F  1 U+6D29  (rouei)      2 U+6D41  3 U+51FA  (ryuushutsu)
\*   4 U+30CF  5 U+30C3  6 U+30AD  7 U+30F3  8 U+30B0  (hakkingu)
\*   9 U+4FB5  ! U+5165  (shinnyuu)   # U+500B  $ U+4EBA  % U+60C5  & U+5831  (kojin jouhou)
\*   ' U+30E1  ( U+30FC  ) U+30EB  * U+30A2  + U+30C9  , U+30EC  ; U+30B9  (meeru adoresu)
\*   < U+793E  > U+54E1  (shain)      ? U+8A00  @ U+53CA  (genkyuu)
\*   [ U+8B70  ] U+8AD6  (giron)
\*   ^ U+30C8  _ U+30E8  { U+30BF  | U+81EA  } U+52D5  ~ U+8ECA  (toyota jidousha)
JapaneseChars == "0123456789!#$%&'()*+,;<>?@[]^_{|}~"

is_japanese(text) ==
    \E i \in 1..Len(text) : \E j \in 1..Len(JapaneseChars) : Char(text, i) = Char(JapaneseChars, j)

\* a classifier that tests the tiers from LOW upwards
determine_severity_LowFirst(text) ==
    IF \E i \in DOMAIN severity_patterns.LOW : PatternSearch(severity_patterns.LOW[i], text)
    THEN "LOW"
    ELSE IF \E i \in DOMAIN severity_patterns.MEDIUM : PatternSearch(severity_patterns.MEDIUM[i], text)
    THEN "MEDIUM"
    ELSE IF \E i \in DOMAIN severity_patterns.HIGH : PatternSearch(severity_patterns.HIGH[i], text)
    THEN "HIGH"
    ELSE "INFO"

determine_severity(text) ==
    IF \E i \in DOMAIN severity_patterns.HIGH : PatternSearch(severity_patterns.HIGH[i], text)
    THEN "HIGH"
    ELSE IF \E i \in DOMAIN severity_patterns.MEDIUM : PatternSearch(severity_patterns.MEDIUM[i], text)
    THEN "MEDIUM"
    ELSE IF \E i \in DOMAIN severity_patterns.LOW : PatternSearch(severity_patterns.LOW[i], text)
    THEN "LOW"
    ELSE "INFO"

Match(term, category, score) == [term |-> term, category |-> category, score |-> score]

\* a running best that a later candidate of equal score replaces
FuzzyStep_LastWins(best, term, category, text) ==
    Only({ IF score >= best.score THEN Match(term, category, score) ELSE best
           : score \in {partial_ratio(Lower(term), text)} })

\* the running best of the two fuzzy loops: <<best_match, best_category, best_score>>
FuzzyStep(best, term, category, text) ==
    Only({ IF score > best.score THEN Match(term, category, score) ELSE best
           : score \in {partial_ratio(Lower(term), text)} })

RECURSIVE KeywordLoop(_, _, _, _)
\* lines 126-137: result is [ret |-> exact match or None, best |-> running best]
KeywordLoop(keywords, i, text, best) ==
    IF i > Len(keywords) THEN [ret |-> None, best |-> best]
    ELSE IF IsSubstr(Lower(keywords[i]), text)
         THEN [ret |-> Match(keywords[i], "Keyword", 100), best |-> best]
         ELSE KeywordLoop(keywords, i + 1, text,
                          IF Len(keywords[i]) > 5
                          THEN FuzzyStep(best, keywords[i], "Keyword", text)
                          ELSE best)

RECURSIVE CompanyLoop(_, _, _, _)
\* lines 140-152
CompanyLoop(companies, i, text, best) ==
    IF i > Len(companies) THEN [ret |-> None, best |-> best]
    ELSE IF is_japanese(companies[i])
         THEN IF IsSubstr(companies[i], text)
              THEN [ret |-> Match(companies[i], "Company Name", 100), best |-> best]
              ELSE CompanyLoop(companies, i + 1, text, best)
         ELSE CompanyLoop(companies, i + 1, text,
                          FuzzyStep(best, companies[i], "Company Name", text))

\* a matcher that runs the keyword loop before the domain loop
find_best_match_KeywordsFirst(targets, text) ==
    LET domains   == Get(targets, "domains", <<>>)
        keywords  == Get(targets, "keywords", <<>>)
        companies == Get(targets, "company_names", <<>>)
        hits      == {i \in DOMAIN domains : IsSubstr(Lower(domains[i]), text)}
        none      == Match(None, None, 0)
        threshold(best) == IF best.score >= 85 /\ best.term # ""
                           THEN best ELSE None
    IN  Only({ IF kw.ret # None THEN kw.ret
               ELSE IF hits # {} THEN Match(domains[Min(hits)], "Domain", 100)
               ELSE Only({ IF co.ret # None THEN co.ret ELSE threshold(co.best)
                           : co \in {CompanyLoop(companies, 1, text, kw.best)} })
               : kw \in {KeywordLoop(keywords, 1, text, none)} })

find_best_match(targets, text) ==
    LET domains   == Get(targets, "domains", <<>>)
        keywords  == Get(targets, "keywords", <<>>)
        companies == Get(targets, "company_names", <<>>)
        hits      == {i \in DOMAIN domains : IsSubstr(Lower(domains[i]), text)}
        none      == Match(None, None, 0)
        \* lines 154-157, after the two loops; best_match is None exactly when
        \* best_score is 0, so a score of 85 comes with a term that is a string
        threshold(best) == IF best.score >= 85 /\ best.term # ""
                           THEN best ELSE None
    IN  IF hits # {} THEN Match(domains[Min(hits)], "Domain", 100)
        ELSE Only({ IF kw.ret # None THEN kw.ret
                    ELSE Only({ IF co.ret # None THEN co.ret ELSE threshold(co.best)
                                : co \in {CompanyLoop(companies, 1, text, kw.best)} })
                    : kw \in {KeywordLoop(keywords, 1, text, none)} })

\* an analyze that alerts on exact matches only
analyze_ExactOnly(targets, entry) ==
    LET raw_text      == Get(entry, "raw_text", "")
        title         == Get(entry, "title", "")
        combined_text == Lower(title \o " " \o raw_text)
    IN  Only({ IF match_result = None THEN None
               ELSE IF match_result.score < 100 THEN None
               ELSE [matched_term |-> match_result.term,
                     category |-> match_result.category,
                     confidence_score |-> match_result.score,
                     severity |-> determine_severity(combined_text),
                     alert |-> TRUE] @@ entry
               : match_result \in {find_best_match(targets, combined_text)} })

\* an analyze in which the fields of the record take precedence over the computed ones
analyze_RecordFirst(targets, entry) ==
    LET raw_text      == Get(entry, "raw_text", "")
        title         == Get(entry, "title", "")
        combined_text == Lower(title \o " " \o raw_text)
    IN  Only({ IF match_result = None THEN None
               ELSE IF match_result.score < 85 THEN None
               ELSE entry @@ [matched_term |-> match_result.term,
                              category |-> match_result.category,
                              confidence_score |-> match_result.score,
                              severity |-> determine_severity(combined_text),
                              alert |-> TRUE]
               : match_result \in {find_best_match(targets, combined_text)} })

\* analyze(entry): the alert dict, or None.  analysis_timestamp (the wall
\* clock) is left out of the alert.
analyze(targets, entry) ==
    LET raw_text      == Get(entry, "raw_text", "")
        title         == Get(entry, "title", "")
        combined_text == Lower(title \o " " \o raw_text)
    IN  Only({ IF match_result = None THEN None
               ELSE IF match_result.score < 85 THEN None
               ELSE [matched_term |-> match_result.term,
                     category |-> match_result.category,
                     confidence_score |-> match_result.score,
                     severity |-> determine_severity(combined_text),
                     alert |-> TRUE] @@ entry
               : match_result \in {find_best_match(targets, combined_text)} })

(***************************************************************************)
(* EnhancedAnalyzer (core/analyzer_enhanced.py).  self.alert_config is the *)
(* YAML mapping as a record; a mapping that is iterated (priority_targets, *)
(* categories, source_reliability) is the sequence of its <<key, value>>   *)
(* items in file order.  A reliability score is in hundredths (0.7 is 70). *)
(* An Optional[str] is <<>> for None and <<s>> for the string s.           *)
(***************************************************************************)
Some(s) == <<s>>

\* truth value of an Optional[str]
Truthy(o) == o # <<>> /\ o[1] # ""

\* key in mapping
HasKey(items, key) == \E i \in DOMAIN items : items[i][1] = key

\* mapping[key]
Item(items, key) == items[CHOOSE i \in DOMAIN items : items[i][1] = key][2]

\* s.split(sep)[0] for a separator of one character
SplitFirst(s, sep) ==
    LET at == {i \in 1..Len(s) : Char(s, i) = sep}
    IN  IF at = {} THEN s ELSE SubSeq(s, 1, Min(at) - 1)

Digits == "0123456789"

RECURSIVE IntOf(_)
\* int(s) for a string of decimal digits
IntOf(s) ==
    IF Len(s) = 0 THEN 0
    ELSE 10 * IntOf(SubSeq(s, 1, Len(s) - 1))
         + (CHOOSE d \in 0..9 : Char(Digits, d + 1) = Char(s, Len(s)))

get_target_priority(targets, term) ==
    LET priority_targets == Get(targets, "priority_targets", <<>>)
        partial == {i \in DOMAIN priority_targets :
                      \/ IsSubstr(Lower(priority_targets[i][1]), Lower(term))
                      \/ IsSubstr(Lower(term), Lower(priority_targets[i][1]))}
    IN  IF HasKey(priority_targets, term) THEN Some(Item(priority_targets, term))
        ELSE IF partial # {} THEN Some(priority_targets[Min(partial)][2])
        ELSE <<>>

get_target_category(targets, term) ==
    LET categories == Get(targets, "categories", <<>>)
        partial == {i \in DOMAIN categories :
                      \/ IsSubstr(Lower(categories[i][1]), Lower(term))
                      \/ IsSubstr(Lower(term), Lower(categories[i][1]))}
    IN  IF HasKey(categories, term) THEN Some(Item(categories, term))
        ELSE IF partial # {} THEN Some(categories[Min(partial)][2])
        ELSE <<>>

\* a gate whose default allow-list also lets LOW through
should_alert_by_priority_LowAllowed(alert_config, alert, priority) ==
    LET thresholds == Get(alert_config, "alert_thresholds", <<>>)
        config == IF Truthy(priority) /\ (priority[1] \o "_PRIORITY") \in DOMAIN thresholds
                  THEN thresholds[priority[1] \o "_PRIORITY"]
                  ELSE Get(thresholds, "DEFAULT", <<>>)
        min_confidence == Get(config, "confidence_score", 85)
        allowed_severities == Get(config, "severity_levels", <<"HIGH", "MEDIUM", "LOW">>)
    IN  IF Get(alert, "confidence_score", 0) < min_confidence THEN FALSE
        ELSE IF Get(alert, "severity", "INFO") \notin Range(allowed_severities) THEN FALSE
        ELSE TRUE

\* a gate that checks the confidence only
should_alert_by_priority_ConfidenceOnly(alert_config, alert, priority) ==
    LET thresholds == Get(alert_config, "alert_thresholds", <<>>)
        config == IF Truthy(priority) /\ (priority[1] \o "_PRIORITY") \in DOMAIN thresholds
                  THEN thresholds[priority[1] \o "_PRIORITY"]
                  ELSE Get(thresholds, "DEFAULT", <<>>)
        min_confidence == Get(config, "confidence_score", 85)
    IN  Get(alert, "confidence_score", 0) >= min_confidence

should_alert_by_priority(alert_config, alert, priority) ==
    LET thresholds == Get(alert_config, "alert_thresholds", <<>>)
        config == IF Truthy(priority) /\ (priority[1] \o "_PRIORITY") \in DOMAIN thresholds
                  THEN thresholds[priority[1] \o "_PRIORITY"]
                  ELSE Get(thresholds, "DEFAULT", <<>>)
        min_confidence == Get(config, "confidence_score", 85)
        allowed_severities == Get(config, "severity_levels", <<"HIGH", "MEDIUM">>)
    IN  IF Get(alert, "confidence_score", 0) < min_confidence THEN FALSE
        ELSE IF Get(alert, "severity", "INFO") \notin Range(allowed_severities) THEN FALSE
        ELSE TRUE

\* analyzer_enhanced.py:139-143
Boost(severity) ==
    IF severity = "LOW" THEN "MEDIUM"
    ELSE IF severity = "MEDIUM" THEN "HIGH"
    ELSE severity

RECURSIVE KeywordBoost_NoBreak(_, _, _, _)
\* a keyword loop that goes on after a keyword was found
KeywordBoost_NoBreak(keywords, i, text_lower, severity) ==
    IF i > Len(keywords) THEN severity
    ELSE IF IsSubstr(Lower(keywords[i]), text_lower)
         THEN KeywordBoost_NoBreak(keywords, i + 1, text_lower, Boost(severity))
         ELSE KeywordBoost_NoBreak(keywords, i + 1, text_lower, severity)

RECURSIVE KeywordBoost(_, _, _, _)
\* the loop of lines 136-144 from keyword i on: the first keyword found in
\* the text boosts the severity and ends the loop
KeywordBoost(keywords, i, text_lower, severity) ==
    IF i > Len(keywords) THEN severity
    ELSE IF IsSubstr(Lower(keywords[i]), text_lower) THEN Boost(severity)
    ELSE KeywordBoost(keywords, i + 1, text_lower, severity)

\* category rules without the alert_all override
apply_category_rules_NoOverride(alert_config, alert, category) ==
    LET category_rules == Get(Get(alert_config, "category_rules", <<>>), category, <<>>)
        extra_keywords == Get(category_rules, "extra_keywords", <<>>)
        focus_keywords == Get(category_rules, "focus_keywords", <<>>)
        text_lower == Lower(Get(alert, "raw_text", ""))
    IN  [alert EXCEPT !.severity =
            KeywordBoost(extra_keywords \o focus_keywords, 1, text_lower, @)]

apply_category_rules(alert_config, alert, category) ==
    LET category_rules == Get(Get(alert_config, "category_rules", <<>>), category, <<>>)
        overridden == IF Get(category_rules, "alert_all", FALSE)
                      THEN [severity |-> "HIGH", category_override |-> TRUE] @@ alert
                      ELSE alert
        extra_keywords == Get(category_rules, "extra_keywords", <<>>)
        focus_keywords == Get(category_rules, "focus_keywords", <<>>)
        text_lower == Lower(Get(alert, "raw_text", ""))
    IN  [overridden EXCEPT !.severity =
            KeywordBoost(extra_keywords \o focus_keywords, 1, text_lower, @)]

get_source_reliability(alert_config, source) ==
    LET reliability_scores == Get(alert_config, "source_reliability", <<>>)
        partial == {i \in DOMAIN reliability_scores :
                      IsSubstr(Lower(reliability_scores[i][1]), Lower(source))}
    IN  IF HasKey(reliability_scores, source) THEN Item(reliability_scores, source)
        ELSE IF partial # {} THEN reliability_scores[Min(partial)][2]
        ELSE 50

\* a source step that lowers every severity of an unreliable source by one tier
adjust_severity_by_source_Cascade(alert_config, alert) ==
    LET source == SplitFirst(Get(alert, "source", ""), "-")
        reliability == get_source_reliability(alert_config, source)
    IN  IF reliability < 70 /\ alert.severity \in {"MEDIUM", "LOW"}
        THEN [severity |-> IF alert.severity = "MEDIUM" THEN "LOW" ELSE "INFO",
              reliability_adjusted |-> TRUE,
              source_reliability |-> reliability] @@ alert
        ELSE [source_reliability |-> reliability] @@ alert

\* a source step that also scales the confidence by the reliability
adjust_severity_by_source_Rescore(alert_config, alert) ==
    LET source == SplitFirst(Get(alert, "source", ""), "-")
        reliability == get_source_reliability(alert_config, source)
    IN  IF reliability < 70 /\ alert.severity = "MEDIUM"
        THEN [severity |-> "LOW", reliability_adjusted |-> TRUE,
              confidence_score |-> (alert.confidence_score * reliability) \div 100,
              source_reliability |-> reliability] @@ alert
        ELSE [source_reliability |-> reliability] @@ alert

adjust_severity_by_source(alert_config, alert) ==
    LET source == SplitFirst(Get(alert, "source", ""), "-")
        reliability == get_source_reliability(alert_config, source)
    IN  IF reliability < 70 /\ alert.severity = "MEDIUM"
        THEN [severity |-> "LOW", reliability_adjusted |-> TRUE,
              source_reliability |-> reliability] @@ alert
        ELSE [source_reliability |-> reliability] @@ alert

\* now is datetime.now(): [weekday |-> 0..6, hour |-> 0..23]
is_working_hours(alert_config, now) ==
    LET wh_config == Get(alert_config, "working_hours", <<>>)
        start_hour == IntOf(SplitFirst(Get(wh_config, "start", "09:00"), ":"))
        end_hour == IntOf(SplitFirst(Get(wh_config, "end", "18:00"), ":"))
    IN  IF ~Get(wh_config, "enabled", FALSE) THEN TRUE
        ELSE IF now.weekday >= 5 /\ ~Get(wh_config, "weekend_alerts", FALSE) THEN FALSE
        ELSE start_hour <= now.hour /\ now.hour < end_hour

\* metadata that also lowers the severity of an alert raised outside working hours
add_enhanced_metadata_QuietHours(alert_config, basic_result, priority, category, now) ==
    [severity |-> IF is_working_hours(alert_config, now) THEN basic_result.severity ELSE "LOW",
     target_priority |-> IF Truthy(priority) THEN priority[1] ELSE "DEFAULT",
     target_category |-> IF Truthy(category) THEN category[1] ELSE "General",
     enhanced_analysis |->
        [priority_boost |-> priority = Some("HIGH"),
         category_alert |->
            /\ category # <<>>
            /\ category[1] \in DOMAIN Get(alert_config, "category_rules", <<>>),
         source_reliability |-> get_source_reliability(alert_config, basic_result.source),
         working_hours_alert |-> is_working_hours(alert_config, now)]]
      @@ basic_result

\* analyzer_enhanced.py:54-63: the alert with its priority, its category and
\* its enhanced metadata; priority and category are Optional[str]
add_enhanced_metadata(alert_config, basic_result, priority, category, now) ==
    [target_priority |-> IF Truthy(priority) THEN priority[1] ELSE "DEFAULT",
     target_category |-> IF Truthy(category) THEN category[1] ELSE "General",
     enhanced_analysis |->
        [priority_boost |-> priority = Some("HIGH"),
         category_alert |->
            /\ category # <<>>
            /\ category[1] \in DOMAIN Get(alert_config, "category_rules", <<>>),
         source_reliability |-> get_source_reliability(alert_config, basic_result.source),
         working_hours_alert |-> is_working_hours(alert_config, now)]]
      @@ basic_result

\* the statements of analyze after the basic analysis returned an alert:
\* [value |-> the alert or None], or [raised |-> the exception]
enhance(targets, alert_config, basic_result, now) ==
    LET priority == get_target_priority(targets, basic_result.matched_term)
        category == get_target_category(targets, basic_result.matched_term)
        categorized == IF Truthy(category)
                       THEN apply_category_rules(alert_config, basic_result, category[1])
                       ELSE basic_result
    IN  IF ~should_alert_by_priority(alert_config, basic_result, priority)
        THEN [value |-> None]
        ELSE Only({ IF "source" \notin DOMAIN adjusted THEN [raised |-> "KeyError"]
                    ELSE [value |-> add_enhanced_metadata(alert_config, adjusted,
                                                          priority, category, now)]
                    : adjusted \in {adjust_severity_by_source(alert_config, categorized)} })

\* EnhancedAnalyzer.analyze(entry) as one function of the object, the entry and the clock
enhanced_analyze(targets, alert_config, entry, now) ==
    Only({ IF basic_result = None THEN [value |-> None]
           ELSE enhance(targets, alert_config, basic_result, now)
           : basic_result \in {analyze(targets, entry)} })

(***************************************************************************)
(* AlertEngine (core/alert_engine.py).  self.slack_webhook_url is an       *)
(* Optional[str].  The message is the sequence of its lines; "(!)" stands  *)
(* for the siren sign of the first line and "'''" for the code fence.      *)
(***************************************************************************)
UpperChar(c) ==
    IF \E i \in 1..Len(LowerChars) : Char(LowerChars, i) = c
    THEN Char(UpperChars, CHOOSE i \in 1..Len(LowerChars) : Char(LowerChars, i) = c)
    ELSE c

RECURSIVE Upper(_)
\* str.upper()
Upper(s) ==
    IF Len(s) = 0 THEN ""
    ELSE IF Len(s) = 1 THEN UpperChar(s)
    ELSE Upper(SubSeq(s, 1, Len(s) \div 2)) \o Upper(SubSeq(s, Len(s) \div 2 + 1, Len(s)))

\* t.find(s): the index from 0 of the first occurrence of s in t, or -1
Find(s, t) ==
    LET at == {i \in 0..(Len(t) - Len(s)) : SubSeq(t, i + 1, i + Len(s)) = s}
    IN  IF at = {} THEN -1 ELSE Min(at)

\* f"{n:.2f}" for an integer n
Format2f(n) == ToString(n) \o ".00"

RECURSIVE Repeat(_, _)
\* s * n
Repeat(s, n) ==
    IF n = 0 THEN ""
    ELSE IF n = 1 THEN s
    ELSE Repeat(s, n \div 2) \o Repeat(s, n - n \div 2)

\* a snippet that ends with an ellipsis whenever the term was found
extract_snippet_AlwaysSuffix(text, term, context_chars) ==
    LET pos == Find(Lower(term), Lower(text))
        start == IF pos - context_chars > 0 THEN pos - context_chars ELSE 0
        end == IF pos + Len(term) + context_chars < Len(text)
               THEN pos + Len(term) + context_chars ELSE Len(text)
    IN  IF text = "" THEN "No content available"
        ELSE IF pos = -1
             THEN IF Len(text) > context_chars * 2
                  THEN SubSeq(text, 1, context_chars * 2) \o "..."
                  ELSE text
        ELSE (IF start > 0 THEN "..." ELSE "") \o SubSeq(text, start + 1, end) \o "..."

extract_snippet(text, term, context_chars) ==
    LET pos == Find(Lower(term), Lower(text))
        start == IF pos - context_chars > 0 THEN pos - context_chars ELSE 0
        end == IF pos + Len(term) + context_chars < Len(text)
               THEN pos + Len(term) + context_chars ELSE Len(text)
    IN  IF text = "" THEN "No content available"
        ELSE IF pos = -1
             THEN IF Len(text) > context_chars * 2
                  THEN SubSeq(text, 1, context_chars * 2) \o "..."
                  ELSE text
        ELSE (IF start > 0 THEN "..." ELSE "")
               \o SubSeq(text, start + 1, end)
               \o (IF end < Len(text) THEN "..." ELSE "")

\* utcnow is datetime.utcnow(): [isoformat |-> its ISO text, timestamp |-> its seconds]
format_alert_message(alert_data, utcnow) ==
    LET severity == Get(alert_data, "severity", "UNKNOWN")
        matched_term == Get(alert_data, "matched_term", "N/A")
        source == Get(alert_data, "source", "Unknown")
        url == Get(alert_data, "url", "N/A")
        timestamp == Get(alert_data, "timestamp", utcnow.isoformat)
        category == Get(alert_data, "category", "Unknown")
        confidence_score == Get(alert_data, "confidence_score", 0)
        raw_text == Get(alert_data, "raw_text", "")
        snippet == extract_snippet(raw_text, matched_term, 200)
    IN  << "(!) *Darkweb Alert - " \o severity \o " Severity*",
           "",
           "*Matched Term:* " \o matched_term,
           "*Category:* " \o category,
           "*Confidence Score:* " \o Format2f(confidence_score) \o "%",
           "*Source:* " \o source,
           "*URL:* " \o url,
           "*Detection Time:* " \o timestamp,
           "",
           "*Context Snippet:*",
           "'''",
           snippet,
           "'''" >>

\* alert_engine.py:130-137
color_map == [HIGH |-> "#ff0000", MEDIUM |-> "#ff9900", LOW |-> "#ffcc00", INFO |-> "#36a64f"]

\* alert_engine.py:127-152: the payload of the webhook request
SlackPayload(message, alert_data, utcnow) ==
    LET severity == Get(alert_data, "severity", "UNKNOWN")
        color == Get(color_map, Upper(severity), "#808080")
    IN  [attachments |->
           << [color |-> color, text |-> message, mrkdwn_in |-> <<"text">>,
               footer |-> "Darkweb Monitor JP", ts |-> utcnow.timestamp] >>]

\* Response.raise_for_status() raises HTTPError for a 4xx or 5xx status
RaisesForStatus(status) == 400 <= status /\ status < 600

\* an except clause that posts the request once more before it gives up
OnRequestException_Retry(r, e) ==
    IF Len(r.posts) < 2
    THEN [r EXCEPT !.posts = Append(@, r.posts[1])]
    ELSE [op |-> "AlertEngine.send_alert", value |-> FALSE]
           @@ [r EXCEPT !.at = "done",
                        !.console = Append(@, "Failed to send Slack alert: " \o e)]

\* alert_engine.py:162-164: the except clause of _send_slack_alert; r is the
\* state of the call, e the text of the exception
OnRequestException(r, e) ==
    [op |-> "AlertEngine.send_alert", value |-> FALSE]
      @@ [r EXCEPT !.at = "done",
                   !.console = Append(@, "Failed to send Slack alert: " \o e)]

(***************************************************************************)
(* The two orchestrators.  variant = "DM" is DarkwebMonitor                *)
(* (scripts/start_monitoring.py), variant = "FM" is FreeAPIMonitor         *)
(* (scripts/start_monitoring_free.py).                                     *)
(***************************************************************************)

\* bounds of the model
MaxCycles == 2

MaxRestarts == 1

MaxBatch == 2

\* the registry of the modelled run (config/targets.json, loaded once in __init__)
targets ==
    [keywords |-> <<"toyota">>, domains |-> <<"a.jp">>, company_names |-> <<"^_{">>]

Urls == {"", "ua", "ub"}

\* a text for which analyze returns an alert, and one for which it returns None
TextHit == "leak a.jp"

TextMiss == "x"

\* the collaborators in call order, and the source name each one writes
DMCalls == <<"darkowl", "ahmia", "spycloud", "discovery">>

FMCalls == <<"web", "twitter", "free", "local", "alt", "ahmia", "discovery", "simulated">>

Calls(v) == IF v = "DM" THEN DMCalls ELSE FMCalls

SourceOf(c) ==
    CASE c = "darkowl" -> "DarkOwl"
      [] c = "ahmia" -> "Ahmia"
      [] c = "spycloud" -> "SpyCloud"
      [] c = "web" -> "Google"
      [] c = "twitter" -> "Twitter-DarkwebSearch"
      [] c = "free" -> "DuckDuckGo"
      [] c = "local" -> "LocalFile"
      [] c = "alt" -> "Matrix"
      [] c = "onionscan" -> "OnionScan"
      [] c = "simulated" -> "JP-ThreatIntel"

\* the <<url, raw_text>> pairs of the records each collaborator can return;
\* the web scraper, the free sources and the Matrix monitor find nothing in the
\* runs considered (they return an empty list or raise)
Offers(c) ==
    CASE c = "darkowl" -> {<<"ua", TextHit>>, <<"ua", TextMiss>>}
      [] c = "ahmia" -> {<<"ua", TextHit>>}
      [] c = "spycloud" -> {<<"", TextHit>>, <<"ub", TextMiss>>}
      [] c = "web" -> {}
      [] c = "twitter" -> {<<"", TextHit>>}
      [] c = "free" -> {}
      [] c = "local" -> {<<"", TextHit>>, <<"ub", TextHit>>}
      [] c = "alt" -> {}
      [] c = "onionscan" -> {<<"ub", TextMiss>>}
      [] c = "simulated" -> {<<"ua", TextHit>>}

RecordsOf(c) ==
    {[source |-> SourceOf(c), url |-> o[1], raw_text |-> o[2], title |-> ""] : o \in Offers(c)}

Collaborators == (Range(DMCalls) \cup Range(FMCalls) \cup {"onionscan"}) \ {"discovery"}

AllRecords == UNION {RecordsOf(c) : c \in Collaborators}

\* self.analyzer.analyze of the run, tabulated once over the records above
AnalysisTable == [e \in AllRecords |-> analyze(targets, e)]

Analyzer(e) == AnalysisTable[e]

RECURSIVE batch_analyze(_)
\* DarkwebAnalyzer.batch_analyze: the alerts of the entries, in entry order
batch_analyze(entries) ==
    IF entries = <<>> THEN <<>>
    ELSE LET alert == Analyzer(Head(entries))
         IN  (IF alert # None THEN <<alert>> ELSE <<>>) \o batch_analyze(Tail(entries))

\* one call returns a list of at most one record here
BatchesOf(c) == {<<>>} \cup {<<r>> : r \in RecordsOf(c)}

\* FreeAPIMonitor wraps these three calls in their own try/except
Wrapped == {"web", "twitter", "free"}

DiscoveryPeriod == 10

\* hasattr(self, '_discovery_counter') is false
NoAttr == -1

\* _create_content_hash: hashlib.md5(content.encode()).hexdigest().  The digest
\* is the value md5 of its preimage: md5 is taken to be collision free on the
\* contents of AllRecords, and a digest is never equal to a URL or a text
create_content_hash(content) == [md5 |-> content]

ContentHash(result) ==
    create_content_hash(Get(result, "source", "") \o Get(result, "raw_text", ""))

RECURSIVE SplitLines(_)
\* the lines a text file yields when iterated, without their line ends
SplitLines(content) ==
    IF Len(content) = 0 THEN {}
    ELSE LET nl == {i \in 1..Len(content) : Char(content, i) = "\n"}
         IN  IF nl = {} THEN {content}
             ELSE {SubSeq(content, 1, Min(nl) - 1)}
                    \cup SplitLines(SubSeq(content, Min(nl) + 1, Len(content)))

\* a save that writes f"{url}" without the line end
SavedLines_NoNewline(urls) ==
    IF urls = {} THEN {}
    ELSE LET RECURSIVE Join(_)
             Join(S) == IF S = {} THEN ""
                        ELSE LET u == CHOOSE x \in S : TRUE IN u \o Join(S \ {u})
         IN  SplitLines(Join(urls))

\* _save_processed_urls / _save_processed_data: one write of f"{url}\n" per
\* URL; the file is kept as the set of its lines
SavedLines(urls) == UNION {SplitLines(u \o "\n") : u \in urls}

\* _load_processed_urls / _load_processed_data: set(line.strip() for line in f)
LoadedUrls(lines) == {Strip(l) : l \in lines}

\* DMFilter without the membership test of line 107
DMFilter_NoDedup(results, purls) ==
    SelectSeq(results, LAMBDA r : Get(r, "url", "") # "")

\* start_monitoring.py:105-108
DMFilter(results, purls) ==
    SelectSeq(results, LAMBDA r : Get(r, "url", "") # "" /\ r["url"] \notin purls)

\* DMMark that records only the URLs of the records that produced an alert
DMMark_OnlyAlerted(new, purls) ==
    purls \cup {Get(new[i], "url", "") :
                  i \in {j \in DOMAIN new : Get(new[j], "url", "") # "" /\ Analyzer(new[j]) # None}}

\* DMMark that assigns the URLs of the batch instead of adding them
DMMark_Replace(new, purls) ==
    {Get(new[i], "url", "") : i \in {j \in DOMAIN new : Get(new[j], "url", "") # ""}}

\* start_monitoring.py:120-122
DMMark(new, purls) ==
    purls \cup {Get(new[i], "url", "") : i \in {j \in DOMAIN new : Get(new[j], "url", "") # ""}}

RECURSIVE FMFilter(_, _, _, _)
\* start_monitoring_free.py:171-188: the loop over all_results
FMFilter(results, new, purls, phashes) ==
    IF results = <<>> THEN [new |-> new, urls |-> purls, hashes |-> phashes]
    ELSE LET result == Head(results)
             url == Get(result, "url", "")
             content_hash == ContentHash(result)
         IN  IF url # "" /\ url \in purls
             THEN FMFilter(Tail(results), new, purls, phashes)
             ELSE IF content_hash \in phashes
             THEN FMFilter(Tail(results), new, purls, phashes)
             ELSE FMFilter(Tail(results), Append(new, result),
                           IF url # "" THEN purls \cup {url} ELSE purls,
                           phashes \cup {content_hash})

\* an except clause that logs and re-raises: the exception reaches start(),
\* which logs it and leaves the scheduler loop
OnCycleException_Propagates == "stopped"

\* what the except clause of monitor_cycle does with an exception: it is
\* logged and the call returns to the scheduler
OnCycleException == "ended"

\* a loop that gives up on the remaining alerts after a failed dispatch
AfterAlert_Break(i, result) == IF result = "sent" THEN i + 1 ELSE i + MaxBatch + 1

\* a loop that tries a failed alert again
AfterAlert_Retry(i, result) == IF result = "sent" THEN i + 1 ELSE i

\* what the except clause of _process_alert leaves of the loop over alerts:
\* the loop goes on with the next alert
AfterAlert(i, result) == i + 1

VARIABLES
    variant,            \* which orchestrator runs
    pc,                 \* position of the process: "idle" (in the scheduler loop of start),
                        \* a phase of monitor_cycle, "ended" (monitor_cycle is about to
                        \* return), or "stopped"
    step,               \* index into Calls(variant) of the next collaborator call
    all_results,        \* local of monitor_cycle
    new_results,        \* local of monitor_cycle
    alerts,             \* local of monitor_cycle
    ai,                 \* index of the next alert of  for alert in alerts
    processed_urls,     \* self.processed_urls
    processed_hashes,   \* self.processed_hashes (FreeAPIMonitor)
    discovery_counter,  \* self._discovery_counter / self.api_counters['discovery_cycle']
    disk,               \* lines of processed_urls.txt / processed_urls_free.txt
    \* history of the run, kept to state the properties
    cycles,             \* cycles started since the model began
    runs,               \* restarts of the process
    outcome,            \* how the last cycle ended
    raised,             \* a collaborator call raised in this cycle
    sent,               \* the send_alert calls of this cycle, in order
    seenBefore,         \* records accepted into new_results in earlier cycles of this run
    failedBefore,       \* records whose dispatch failed in earlier cycles of this run
    alertCount,         \* per URL, the alerts batch_analyze returned in this run
    hashesAtSave,       \* content hashes in memory at the last completed save
    \* a component called on its own (analyzer, Priority Filter, alert engine)
    args,               \* the object's configuration and the arguments of the call
    ret                 \* what the call returned or raised, and its effects

vars == <<variant, pc, step, all_results, new_results, alerts, ai, processed_urls,
          processed_hashes, discovery_counter, disk, cycles, runs, outcome, raised,
          sent, seenBefore, failedBefore, alertCount, hashesAtSave, args, ret>>

locals == <<all_results, new_results, alerts, ai>>

cache == <<processed_urls, processed_hashes>>

history == <<cycles, runs, outcome, raised, sent, seenBefore, failedBefore, alertCount,
             hashesAtSave>>

\* __init__ of either monitor, given the file on disk
Constructed(v, lines, counter) ==
    /\ variant = v
    /\ pc = "idle"
    /\ step = 0
    /\ all_results = <<>>
    /\ new_results = <<>>
    /\ alerts = <<>>
    /\ ai = 1
    /\ processed_urls = LoadedUrls(lines)
    /\ processed_hashes = {}
    /\ discovery_counter = counter
    /\ disk = lines

\* The process has been constructed with no file on disk.  FreeAPIMonitor is
\* taken up after DiscoveryPeriod - 2 cycles in which no collaborator returned
\* a record (its cache is still empty then), so that its tenth cycle is within
\* MaxCycles; a restarted FreeAPIMonitor starts from counter 0.
Init ==
    /\ \E v \in {"DM", "FM"} :
         Constructed(v, {}, IF v = "DM" THEN NoAttr ELSE DiscoveryPeriod - 2)
    /\ cycles = 0
    /\ runs = 0
    /\ outcome = "none"
    /\ raised = FALSE
    /\ sent = <<>>
    /\ seenBefore = {}
    /\ failedBefore = {}
    /\ alertCount = [u \in Urls |-> 0]
    /\ hashesAtSave = {}
    /\ args = None
    /\ ret = None

\* schedule.run_pending / the first call in start(): monitor_cycle begins
StartCycle ==
    /\ pc = "idle"
    /\ cycles < MaxCycles
    /\ pc' = "fetch"
    /\ step' = 1
    /\ all_results' = <<>>
    /\ new_results' = <<>>
    /\ alerts' = <<>>
    /\ ai' = 1
    /\ cycles' = cycles + 1
    /\ outcome' = "running"
    /\ raised' = FALSE
    /\ sent' = <<>>
    /\ UNCHANGED <<variant, cache, discovery_counter, disk, runs, seenBefore, failedBefore,
                   alertCount, hashesAtSave>>
    /\ UNCHANGED <<args, ret>>

\* the call list goes on with the next collaborator, or the fetch phase ends
Advance ==
    /\ step' = step + 1
    /\ pc' = IF step = Len(Calls(variant)) THEN "filter" ELSE "fetch"

\* an exception leaves the try block of monitor_cycle (lines 129-130 / 210-211)
Abort(how) ==
    /\ pc' = OnCycleException
    /\ outcome' = how
    /\ UNCHANGED step

AtCall(c) == pc = "fetch" /\ step <= Len(Calls(variant)) /\ Calls(variant)[step] = c

Fetchers == {"darkowl", "ahmia", "spycloud", "web", "twitter", "free", "local", "alt"}

\* a collaborator returns its batch and all_results is extended with it
FetchReturns(c) ==
    /\ AtCall(c)
    /\ \E batch \in BatchesOf(c) :
         /\ Len(all_results) + Len(batch) <= MaxBatch
         /\ all_results' = all_results \o batch
    /\ Advance
    /\ UNCHANGED <<variant, new_results, alerts, ai, cache, discovery_counter, disk,
                   cycles, runs, outcome, raised, sent, seenBefore, failedBefore,
                   alertCount, hashesAtSave>>
    /\ UNCHANGED <<args, ret>>

\* a collaborator raises: caught by the inner try of FreeAPIMonitor for the
\* wrapped calls, by the try of monitor_cycle for all the others
FetchRaises(c) ==
    /\ AtCall(c)
    /\ raised' = TRUE
    /\ IF variant = "FM" /\ c \in Wrapped
       THEN Advance /\ UNCHANGED outcome
       ELSE Abort("fetch_error")
    /\ UNCHANGED <<variant, locals, cache, discovery_counter, disk, cycles, runs, sent,
                   seenBefore, failedBefore, alertCount, hashesAtSave>>
    /\ UNCHANGED <<args, ret>>

\* the counter update that precedes the discovery call
NextCounter ==
    IF variant = "DM"
    THEN (IF discovery_counter = NoAttr THEN 0 ELSE discovery_counter + 1)
    ELSE discovery_counter + 1

\* not a tenth cycle: discover_tor_sites is not called
DiscoverySkipped ==
    /\ AtCall("discovery")
    /\ NextCounter % DiscoveryPeriod # 0
    /\ discovery_counter' = NextCounter
    /\ Advance
    /\ UNCHANGED <<variant, locals, cache, disk, history>>
    /\ UNCHANGED <<args, ret>>

\* discover_tor_sites returns n discoveries; FreeAPIMonitor then scans them
\* with scan_discovered_onions, which returns a batch
DiscoveryReturns ==
    /\ AtCall("discovery")
    /\ NextCounter % DiscoveryPeriod = 0
    /\ discovery_counter' = NextCounter
    /\ \E n \in {0, 1} :
         IF variant = "FM" /\ n > 0
         THEN \E batch \in BatchesOf("onionscan") :
                /\ Len(all_results) + Len(batch) <= MaxBatch
                /\ all_results' = all_results \o batch
         ELSE UNCHANGED all_results
    /\ Advance
    /\ UNCHANGED <<variant, new_results, alerts, ai, cache, disk, history>>
    /\ UNCHANGED <<args, ret>>

\* discover_tor_sites or scan_discovered_onions raises
DiscoveryRaises ==
    /\ AtCall("discovery")
    /\ NextCounter % DiscoveryPeriod = 0
    /\ discovery_counter' = NextCounter
    /\ raised' = TRUE
    /\ Abort("fetch_error")
    /\ UNCHANGED <<variant, locals, cache, disk, cycles, runs, sent, seenBefore,
                   failedBefore, alertCount, hashesAtSave>>
    /\ UNCHANGED <<args, ret>>

\* a fallback that is called in every cycle
FallbackNeeded_Always(results) == TRUE

\* start_monitoring_free.py:164: if len(all_results) == 0
FallbackNeeded(results) == Len(results) = 0

\* start_monitoring_free.py:164-168: the fallback is called only on an empty batch
SimulatedSkipped ==
    /\ AtCall("simulated")
    /\ ~FallbackNeeded(all_results)
    /\ Advance
    /\ UNCHANGED <<variant, locals, cache, discovery_counter, disk, history>>
    /\ UNCHANGED <<args, ret>>

SimulatedReturns ==
    /\ AtCall("simulated")
    /\ FallbackNeeded(all_results)
    /\ \E batch \in BatchesOf("simulated") : all_results' = all_results \o batch
    /\ Advance
    /\ UNCHANGED <<variant, new_results, alerts, ai, cache, discovery_counter, disk, history>>
    /\ UNCHANGED <<args, ret>>

SimulatedRaises ==
    /\ AtCall("simulated")
    /\ FallbackNeeded(all_results)
    /\ raised' = TRUE
    /\ Abort("fetch_error")
    /\ UNCHANGED <<variant, locals, cache, discovery_counter, disk, cycles, runs, sent,
                   seenBefore, failedBefore, alertCount, hashesAtSave>>
    /\ UNCHANGED <<args, ret>>

\* the dedup filter; FreeAPIMonitor records the keys while it filters
Filter ==
    /\ pc = "filter"
    /\ IF variant = "DM"
       THEN /\ new_results' = DMFilter(all_results, processed_urls)
            /\ UNCHANGED cache
       ELSE LET f == FMFilter(all_results, <<>>, processed_urls, processed_hashes)
            IN  /\ new_results' = f.new
                /\ processed_urls' = f.urls
                /\ processed_hashes' = f.hashes
    /\ pc' = "analyze"
    /\ UNCHANGED <<variant, step, all_results, alerts, ai, discovery_counter, disk, history>>
    /\ UNCHANGED <<args, ret>>

\* the phase after the loop over alerts
AfterDispatch == IF variant = "DM" THEN "mark" ELSE "save"

\* the entries of a batch for which analyze returns an alert, in batch order
AlertEntries(entries) == SelectSeq(entries, LAMBDA e : Analyzer(e) # None)

\* alerts = self.analyzer.batch_analyze(new_results)
Analyze ==
    /\ pc = "analyze"
    /\ alerts' = batch_analyze(new_results)
    /\ ai' = 1
    /\ pc' = IF alerts' = <<>> THEN AfterDispatch ELSE "dispatch"
    /\ alertCount' = [u \in Urls |->
                        alertCount[u] + Cardinality({i \in DOMAIN alerts' : Get(alerts'[i], "url", "") = u})]
    /\ UNCHANGED <<variant, step, all_results, new_results, cache, discovery_counter, disk,
                   cycles, runs, outcome, raised, sent, seenBefore, failedBefore, hashesAtSave>>
    /\ UNCHANGED <<args, ret>>

\* the keys _process_alert reads with alert[...] before it calls send_alert
LoggedKeys ==
    {"severity", "matched_term", "confidence_score"} \cup (IF variant = "DM" THEN {"url"} ELSE {"source"})

\* _process_alert(alerts[ai]): send_alert returns True ("sent"), returns False
\* ("failed") or raises ("raised"); any exception is caught and logged.
\* FreeAPIMonitor first prefixes the alert's raw_text.
ProcessAlert ==
    /\ pc = "dispatch"
    /\ ai <= Len(alerts)
    /\ LET alert == alerts[ai]
           tagged == IF variant = "FM"
                     THEN [raw_text |-> "[FREE API - " \o alert["source"] \o "] "
                                           \o Get(alert, "raw_text", "")] @@ alert
                     ELSE alert
       IN  IF LoggedKeys \subseteq DOMAIN alert
           THEN \E result \in {"sent", "failed", "raised"} :
                  /\ alerts' = [alerts EXCEPT ![ai] = tagged]
                  /\ sent' = Append(sent, [alert |-> tagged,
                                           entry |-> AlertEntries(new_results)[ai],
                                           result |-> result])
                  /\ ai' = AfterAlert(ai, result)
           ELSE \* KeyError in the log call: caught, send_alert is not called
                /\ UNCHANGED <<alerts, sent>>
                /\ ai' = AfterAlert(ai, "raised")
    /\ pc' = IF ai' > Len(alerts) THEN AfterDispatch ELSE "dispatch"
    /\ UNCHANGED <<variant, step, all_results, new_results, cache, discovery_counter, disk,
                   cycles, runs, outcome, raised, seenBefore, failedBefore, alertCount,
                   hashesAtSave>>
    /\ UNCHANGED <<args, ret>>

\* start_monitoring.py:119-122 (DarkwebMonitor only)
MarkProcessed ==
    /\ pc = "mark"
    /\ processed_urls' = DMMark(new_results, processed_urls)
    /\ pc' = "save"
    /\ UNCHANGED <<variant, step, locals, processed_hashes, discovery_counter, disk, history>>
    /\ UNCHANGED <<args, ret>>

\* the save completes and the cycle ends normally
SaveCompletes ==
    /\ pc = "save"
    /\ disk' = SavedLines(processed_urls)
    /\ hashesAtSave' = processed_hashes
    /\ outcome' = "completed"
    /\ pc' = "ended"
    /\ UNCHANGED <<variant, step, locals, cache, discovery_counter, cycles, runs, raised,
                   sent, seenBefore, failedBefore, alertCount>>
    /\ UNCHANGED <<args, ret>>

\* open or write raises: the file is left as it was or holds the lines
\* written so far; the exception is caught by the try of monitor_cycle
SaveRaises ==
    /\ pc = "save"
    /\ \E written \in SUBSET processed_urls :
         disk' \in {disk, SavedLines(written)}
    /\ Abort("save_error")
    /\ UNCHANGED <<variant, locals, cache, discovery_counter, cycles, runs, raised, sent,
                   seenBefore, failedBefore, alertCount, hashesAtSave>>
    /\ UNCHANGED <<args, ret>>

\* monitor_cycle returns to the scheduler loop of start(): its locals are gone
CycleReturns ==
    /\ pc = "ended"
    /\ pc' = "idle"
    /\ step' = 0
    /\ all_results' = <<>>
    /\ new_results' = <<>>
    /\ alerts' = <<>>
    /\ ai' = 1
    /\ outcome' = "none"
    /\ raised' = FALSE
    /\ sent' = <<>>
    /\ seenBefore' = seenBefore \cup Range(new_results)
    /\ failedBefore' = failedBefore \cup {sent[i].entry : i \in {j \in DOMAIN sent : sent[j].result # "sent"}}
    /\ UNCHANGED <<variant, cache, discovery_counter, disk, cycles, runs, alertCount, hashesAtSave>>
    /\ UNCHANGED <<args, ret>>

\* the process ends between two cycles and is started again: __init__ runs
Restart ==
    /\ pc = "idle"
    /\ cycles > 0
    /\ runs < MaxRestarts
    /\ runs' = runs + 1
    /\ step' = 0
    /\ all_results' = <<>>
    /\ new_results' = <<>>
    /\ alerts' = <<>>
    /\ ai' = 1
    /\ processed_urls' = LoadedUrls(disk)
    /\ processed_hashes' = {}
    /\ discovery_counter' = IF variant = "DM" THEN NoAttr ELSE 0
    /\ outcome' = "none"
    /\ raised' = FALSE
    /\ sent' = <<>>
    /\ seenBefore' = {}
    /\ failedBefore' = {}
    /\ alertCount' = [u \in Urls |-> 0]
    /\ UNCHANGED <<variant, pc, disk, cycles, hashesAtSave>>
    /\ UNCHANGED <<args, ret>>

Next ==
    \/ StartCycle
    \/ \E c \in Fetchers : FetchReturns(c)
    \/ \E c \in Fetchers : FetchRaises(c)
    \/ DiscoverySkipped
    \/ DiscoveryReturns
    \/ DiscoveryRaises
    \/ SimulatedSkipped
    \/ SimulatedReturns
    \/ SimulatedRaises
    \/ Filter
    \/ Analyze
    \/ ProcessAlert
    \/ MarkProcessed
    \/ SaveCompletes
    \/ SaveRaises
    \/ CycleReturns
    \/ Restart

Spec == Init /\ [][Next]_vars

\* the scheduler loop of start() runs the next cycle when it is due
LiveSpec == Spec /\ WF_vars(CycleReturns) /\ WF_vars(StartCycle)

(***************************************************************************)
(* The analyzer called on its own: one DarkwebAnalyzer object with its     *)
(* registry (self.targets) and one call of _find_best_match,               *)
(* _determine_severity or analyze on an entry.                             *)
(***************************************************************************)
\* the registries of the analyzers considered; "^_{|}~" is a Japanese company
\* name, "^_{|}~<" a Japanese keyword of seven characters
Registries ==
    { targets,
      [domains |-> <<"b.jp", "A.jp">>, keywords |-> <<"toyota", "nec">>,
       company_names |-> <<"^_{|}~", "Hitachi">>],
      [keywords |-> <<"^_{|}~<", "toyota">>, company_names |-> <<"Hitachi", "hitachi ltd">>],
      [domains |-> <<>>, keywords |-> <<"hitachi", "toyota">>, company_names |-> <<"^_{|}~">>],
      [domains |-> <<>>, keywords |-> <<"nissan", "hitachy">>,
       company_names |-> <<"hitachu", "hitachi ltd">>],
      [keywords |-> <<>>, domains |-> <<>>, company_names |-> <<>>] }

\* raw_text values of the entries
Texts ==
    { "", "x", "leak a.jp", "Toyota at a.jp and b.jp", "TOYOTA passwords dump",
      "toyoda forum", "hitach1 user list", "Hitachi Ltd thread", "NEC mention",
      "^_{|}~ 01", "^_{|}~ x", "^_{ |}~", "password: x forum a.jp",
      "email list discussion hitachi", "personal data of <> toyota", "api key toyota",
      "hitachi ltx thread" }

\* the entries: raw_text alone, with a title, with a source, or a title alone
Entries ==
    {[raw_text |-> x] : x \in Texts}
      \cup {[title |-> "B.JP", raw_text |-> x] : x \in {"", "x", "toyota"}}
      \cup {[source |-> "DarkOwl", url |-> "ua", raw_text |-> x] : x \in {"leak a.jp", "hitach1 user list"}}
      \cup {[title |-> "toyota database dump"]}

\* analyzer.py:73-75
CombinedText(entry) == Lower(Get(entry, "title", "") \o " " \o Get(entry, "raw_text", ""))

\* no call has been made yet
Pending == [pending |-> TRUE]

\* the orchestrator of a process that calls a component on its own: it is
\* constructed and never started
MonitorUnused ==
    /\ Constructed("DM", {}, NoAttr)
    /\ cycles = 0
    /\ runs = 0
    /\ outcome = "none"
    /\ raised = FALSE
    /\ sent = <<>>
    /\ seenBefore = {}
    /\ failedBefore = {}
    /\ alertCount = [u \in Urls |-> 0]
    /\ hashesAtSave = {}

monitor == <<variant, pc, step, locals, cache, discovery_counter, disk, history>>

AnalyzerInit ==
    /\ MonitorUnused
    /\ args \in {[targets |-> t, entry |-> e] : t \in Registries, e \in Entries}
    /\ ret = Pending

\* self._find_best_match(combined_text)
CallFindBestMatch ==
    /\ ret = Pending
    /\ ret' = [op |-> "_find_best_match",
               value |-> find_best_match(args.targets, CombinedText(args.entry))]
    /\ UNCHANGED <<monitor, args>>

\* self._determine_severity(combined_text)
CallDetermineSeverity ==
    /\ ret = Pending
    /\ ret' = [op |-> "_determine_severity",
               value |-> determine_severity(CombinedText(args.entry))]
    /\ UNCHANGED <<monitor, args>>

\* self.analyze(entry)
CallAnalyze ==
    /\ ret = Pending
    /\ ret' = [op |-> "analyze", value |-> analyze(args.targets, args.entry)]
    /\ UNCHANGED <<monitor, args>>

AnalyzerNext ==
    \/ CallFindBestMatch
    \/ CallDetermineSeverity
    \/ CallAnalyze

AnalyzerSpec == AnalyzerInit /\ [][AnalyzerNext]_vars

(***************************************************************************)
(* The enhanced analyzer called on its own: one EnhancedAnalyzer object    *)
(* with its registry and its alert configuration, and one call of          *)
(* analyze(entry), followed statement by statement.                        *)
(***************************************************************************)
EnhancedRegistries ==
    { [domains |-> <<"sony.co.jp">>, keywords |-> <<"toyota">>, company_names |-> <<"Hitachi">>,
       priority_targets |-> << <<"sony.co.jp", "HIGH">>, <<"Toyota Motor", "CRITICAL">>,
                               <<"Hitachi", "LOW">> >>,
       categories |-> << <<"sony.co.jp", "Electronics">>, <<"Toyota Motor", "Automotive">> >>],
      [domains |-> <<"sony.co.jp">>, keywords |-> <<"toyota">>, company_names |-> <<"Hitachi">>,
       categories |-> << <<"toyota", "Automotive">>, <<"SONY.CO.JP", "Electronics">>,
                         <<"Hitachi", "">> >>],
      [domains |-> <<"sony.co.jp">>, keywords |-> <<"toyota">>, company_names |-> <<"Hitachi">>] }

AllSeverities == <<"HIGH", "MEDIUM", "LOW", "INFO">>

\* the alert configurations: a full one, the empty mapping, one whose default
\* policy lets every severity through, one with a single policy
AlertConfigs ==
    { [alert_thresholds |->
          [HIGH_PRIORITY |-> [confidence_score |-> 80, severity_levels |-> AllSeverities],
           LOW_PRIORITY |-> [confidence_score |-> 95, severity_levels |-> <<"HIGH">>],
           DEFAULT |-> [confidence_score |-> 85, severity_levels |-> <<"HIGH", "MEDIUM">>]],
       category_rules |->
          [Electronics |-> [alert_all |-> TRUE],
           Automotive |-> [focus_keywords |-> <<"recall", "VIN">>,
                           extra_keywords |-> <<"dealer">>]],
       source_reliability |-> << <<"DarkOwl", 90>>, <<"Twitter", 30>>, <<"paste", 60>> >>,
       working_hours |-> [enabled |-> TRUE, start |-> "09:00", end |-> "18:00",
                          weekend_alerts |-> FALSE]],
      <<>>,
      [alert_thresholds |-> [DEFAULT |-> [severity_levels |-> AllSeverities]],
       category_rules |->
          [Electronics |-> [alert_all |-> TRUE, focus_keywords |-> <<"forum">>],
           Automotive |-> [focus_keywords |-> <<"recall", "VIN">>,
                           extra_keywords |-> <<"dealer">>]],
       source_reliability |-> << <<"twitter", 90>>, <<"Twitter-DarkwebSearch", 30>>,
                                 <<"Pastebin", 69>> >>,
       working_hours |-> [enabled |-> TRUE, start |-> "08:30", weekend_alerts |-> TRUE]],
      [alert_thresholds |-> [HIGH_PRIORITY |-> [confidence_score |-> 101]],
       source_reliability |-> << <<"DarkOwl", 70>> >>,
       working_hours |-> [enabled |-> FALSE]] }

EnhancedTexts ==
    { "discussion forum thread about sony.co.jp", "sony.co.jp email list",
      "toyota user list recall dealer", "toyota forum vin recall",
      "toyota password dump recall", "hitach1 user list", "toyota x recall",
      "toyota forum", "x" }

Sources == {"DarkOwl", "Twitter-DarkwebSearch", "Pastebin"}

\* the entries: with a source, without one, or with all the fields that the
\* simulated producer writes (simulated_sources.py:90-108)
EnhancedEntries ==
    {[source |-> s, raw_text |-> x] : s \in Sources, x \in EnhancedTexts}
      \cup {[raw_text |-> x] : x \in EnhancedTexts}
      \cup {[source |-> "DarkForum-JP", matched_term |-> "Honda", raw_text |-> x,
             title |-> "Leak", url |-> "http://simulated1.onion/Honda",
             timestamp |-> "2024-05-01T10:00:00", discovered_date |-> "2024-04-30T10:00:00",
             severity |-> "HIGH", category |-> "simulated",
             metadata |-> [simulation |-> TRUE]] :
             x \in {"toyota user list recall dealer", "toyota forum", "x"}}

\* values of datetime.now(): a Wednesday morning, a Wednesday night, a Sunday morning
Clocks == {[weekday |-> 2, hour |-> 10], [weekday |-> 2, hour |-> 23], [weekday |-> 6, hour |-> 10]}

EnhancedInit ==
    /\ MonitorUnused
    /\ args \in {[targets |-> t, alert_config |-> c, entry |-> e, now |-> n] :
                   t \in EnhancedRegistries, c \in AlertConfigs,
                   e \in EnhancedEntries, n \in Clocks}
    /\ ret = Pending

\* the statement of EnhancedAnalyzer.analyze the call is at
At(p) == "at" \in DOMAIN ret /\ ret.at = p

\* return value, or raise exc, out of analyze; the locals are kept
Return(value) == [op |-> "EnhancedAnalyzer.analyze", value |-> value] @@ [ret EXCEPT !.at = "done"]

Raise(exc) == [op |-> "EnhancedAnalyzer.analyze", raised |-> exc] @@ [ret EXCEPT !.at = "done"]

\* analyzer_enhanced.py:32-40: the basic analysis, then the priority and the
\* category of the matched term
EnhBasic ==
    /\ ret = Pending
    /\ \E basic_result \in {analyze(args.targets, args.entry)} :
          ret' = IF basic_result = None
                 THEN [op |-> "EnhancedAnalyzer.analyze", value |-> None, at |-> "done"]
                 ELSE [at |-> "gate", basic |-> basic_result, basic_result |-> basic_result,
                       priority |-> get_target_priority(args.targets, basic_result.matched_term),
                       category |-> get_target_category(args.targets, basic_result.matched_term)]
    /\ UNCHANGED <<monitor, args>>

\* analyzer_enhanced.py:43-44
EnhGate ==
    /\ At("gate")
    /\ ret' = IF should_alert_by_priority(args.alert_config, ret.basic_result, ret.priority)
              THEN [ret EXCEPT !.at = "category"]
              ELSE Return(None)
    /\ UNCHANGED <<monitor, args>>

\* analyzer_enhanced.py:47-48
EnhCategory ==
    /\ At("category")
    /\ ret' = [ret EXCEPT !.at = "source",
                          !.basic_result =
                              IF Truthy(ret.category)
                              THEN apply_category_rules(args.alert_config, @, ret.category[1])
                              ELSE @]
    /\ UNCHANGED <<monitor, args>>

\* analyzer_enhanced.py:51
EnhSource ==
    /\ At("source")
    /\ ret' = [ret EXCEPT !.at = "metadata",
                          !.basic_result = adjust_severity_by_source(args.alert_config, @)]
    /\ UNCHANGED <<monitor, args>>

\* analyzer_enhanced.py:54-65; basic_result['source'] raises KeyError when the
\* entry has no source
EnhMetadata ==
    /\ At("metadata")
    /\ ret' = IF "source" \notin DOMAIN ret.basic_result THEN Raise("KeyError")
              ELSE Return(add_enhanced_metadata(args.alert_config, ret.basic_result,
                                                ret.priority, ret.category, args.now))
    /\ UNCHANGED <<monitor, args>>

EnhancedNext ==
    \/ EnhBasic
    \/ EnhGate
    \/ EnhCategory
    \/ EnhSource
    \/ EnhMetadata

EnhancedSpec == EnhancedInit /\ [][EnhancedNext]_vars

(***************************************************************************)
(* The alert engine called on its own: one AlertEngine object, one call of *)
(* send_alert(alert_data), and the answer of the webhook to the request    *)
(* that the call posts.                                                    *)
(***************************************************************************)
\* os.getenv('SLACK_WEBHOOK_URL'): unset, empty, or a URL
WebhookUrls == {<<>>, Some(""), Some("https://hooks.slack.example/T0")}

\* the alerts handed to send_alert: the alerts of the analyzer for its entries,
\* and dicts that lack the fields of an alert
\* raw_text values around the 200 characters of context of a snippet: the term
\* "a.jp" with 230, 200 or 201 characters before it and after it, no term in
\* 400 and in 401 characters, and the term twice
LongTexts ==
    { Repeat("x", 230) \o "A.jp" \o Repeat("y", 230),
      Repeat("x", 200) \o "a.jp" \o Repeat("y", 200),
      Repeat("x", 201) \o "a.jp" \o Repeat("y", 200),
      Repeat("x", 200) \o "a.jp" \o Repeat("y", 201),
      Repeat("z", 400),
      Repeat("z", 401),
      "a.jp" \o Repeat("x", 250) \o "a.jp" }

EngineAlerts ==
    ({analyze(targets, e) : e \in Entries} \ {None})
      \cup {[raw_text |-> "leak a.jp"], [severity |-> "High", matched_term |-> "a.jp"], <<>>}
      \cup {[matched_term |-> "a.jp", category |-> "Domain", confidence_score |-> 100,
             severity |-> "LOW", alert |-> TRUE, raw_text |-> x] : x \in LongTexts}

UtcNow == [isoformat |-> "2024-05-01T10:00:00", timestamp |-> 1714557600]

\* the status of the response to the request
Statuses == {200, 204, 304, 400, 404, 429, 500, 503}

\* the subclasses of RequestException that requests.post raises
PostExceptions == {"ConnectionError", "Timeout", "MissingSchema"}

EngineInit ==
    /\ MonitorUnused
    /\ args \in {[slack_webhook_url |-> w, alert_data |-> a, utcnow |-> UtcNow] :
                   w \in WebhookUrls, a \in EngineAlerts}
    /\ ret = [at |-> "constructed",
              console |-> IF Truthy(args.slack_webhook_url) THEN <<>>
                          ELSE <<"Warning: SLACK_WEBHOOK_URL not found. Alerts will be printed to console only.">>,
              posts |-> <<>>]

\* alert_engine.py:16-38 and, with a webhook, 117-159: the message is
\* formatted and either printed or posted to the webhook
SendAlert ==
    /\ At("constructed")
    /\ \E message \in {format_alert_message(args.alert_data, args.utcnow)} :
          ret' = IF Truthy(args.slack_webhook_url)
                 THEN [message |-> message]
                        @@ [ret EXCEPT !.at = "post",
                                  !.posts = Append(@, [url |-> args.slack_webhook_url[1],
                                                       json |-> SlackPayload(message, args.alert_data,
                                                                             args.utcnow)])]
                 ELSE [op |-> "AlertEngine.send_alert", value |-> TRUE, message |-> message]
                        @@ [ret EXCEPT !.at = "done",
                                       !.console = @ \o << Repeat("=", 80),
                                                           "ALERT: " \o Get(args.alert_data, "severity", "UNKNOWN")
                                                              \o " SEVERITY" >>
                                                     \o message
                                                     \o << Repeat("=", 80) >>]
    /\ UNCHANGED <<monitor, args>>

\* alert_engine.py:155-164: requests.post returns a response; raise_for_status
\* raises HTTPError, a RequestException, for a 4xx or 5xx status
PostResponds ==
    /\ At("post")
    /\ \E status \in Statuses :
          ret' = [outcome |-> [status |-> status]]
                   @@ IF RaisesForStatus(status)
                      THEN OnRequestException(ret, "HTTPError")
                      ELSE [op |-> "AlertEngine.send_alert", value |-> TRUE]
                             @@ [ret EXCEPT !.at = "done"]
    /\ UNCHANGED <<monitor, args>>

\* alert_engine.py:155-164: requests.post raises
PostRaises ==
    /\ At("post")
    /\ \E e \in PostExceptions :
          ret' = [outcome |-> [raised |-> e]] @@ OnRequestException(ret, e)
    /\ UNCHANGED <<monitor, args>>

EngineNext ==
    \/ SendAlert
    \/ PostResponds
    \/ PostRaises

EngineSpec == EngineInit /\ [][EngineNext]_vars

(***************************************************************************)
(* The dedup cache saved and loaded on its own: _save_processed_urls       *)
(* (_save_processed_data) writes self.processed_urls, then                 *)
(* _load_processed_urls (_load_processed_data) of a new process reads the  *)
(* file.                                                                   *)
(***************************************************************************)
\* URLs a collaborator can return and the orchestrator record: the Ahmia
\* adapter and the Twitter monitor copy the href attribute of a link as it is
RecordableUrls == {"ua", "ub", "http://a.onion/", "http://b.onion/ ", " http://c.onion/", "\tub"}

PersistInit ==
    /\ MonitorUnused
    /\ args \in {[monitor |-> v, processed_urls |-> S] :
                   v \in {"DM", "FM"}, S \in SUBSET RecordableUrls}
    /\ ret = Pending

\* start_monitoring.py:59-63, start_monitoring_free.py:87-91
CallSave ==
    /\ ret = Pending
    /\ ret' = [at |-> "saved", file |-> SavedLines(args.processed_urls)]
    /\ UNCHANGED <<monitor, args>>

\* start_monitoring.py:51-57, start_monitoring_free.py:79-85
CallLoad ==
    /\ At("saved")
    /\ ret' = [op |-> "_load_processed_urls", value |-> LoadedUrls(ret.file)]
                 @@ [ret EXCEPT !.at = "done"]
    /\ UNCHANGED <<monitor, args>>

PersistNext ==
    \/ CallSave
    \/ CallLoad

PersistSpec == PersistInit /\ [][PersistNext]_vars

(***************************************************************************)
(* Properties                                                              *)
(***************************************************************************)
UrlOf(r) == Get(r, "url", "")

SeenUrls == {UrlOf(r) : r \in seenBefore} \ {""}

\* the keys of a record are in the dedup cache
KeysRecorded(r) ==
    /\ UrlOf(r) # "" => UrlOf(r) \in processed_urls
    /\ variant = "FM" => ContentHash(r) \in processed_hashes

SentAlerts == [j \in DOMAIN sent |-> sent[j].alert]

DispatchFailed == \E j \in DOMAIN sent : sent[j].result # "sent"

\* C1: a record whose URL was accepted into the batch of an earlier cycle of
\* the run is never accepted again: it is not in new_results, hence not
\* analysed, and no alert carries its URL.
C1_LaterSameUrlSkipped ==
    /\ \A i \in DOMAIN new_results : UrlOf(new_results[i]) \notin SeenUrls
    /\ \A i \in DOMAIN alerts : UrlOf(alerts[i]) \notin SeenUrls

\* a record with an already accepted URL and another raw_text arrives in a later cycle
C1_Witness ==
    /\ pc = "analyze"
    /\ \E i \in DOMAIN all_results : \E r \in seenBefore :
         /\ UrlOf(r) # ""
         /\ UrlOf(all_results[i]) = UrlOf(r)
         /\ all_results[i].raw_text # r.raw_text

\* C2: within one run at most one alert is generated per URL, also when two
\* records with the same URL arrive in the batch of one cycle.
C2_AtMostOneAlertPerUrl == \A u \in Urls \ {""} : alertCount[u] <= 1

\* C3: within a run no step removes a URL or a content hash from the cache.
C3_CacheOnlyGrows ==
    [][runs' = runs => /\ processed_urls \subseteq processed_urls'
                       /\ processed_hashes \subseteq processed_hashes']_vars

\* a second cycle of a run ended in a caught error with URLs in the cache
C3_Witness ==
    /\ pc = "ended"
    /\ outcome \in {"fetch_error", "save_error"}
    /\ seenBefore # {}
    /\ processed_urls # {}

CycleEnded == pc = "ended" /\ outcome \in {"completed", "fetch_error", "save_error"}

\* C4 as claimed: at the end of every cycle, ended normally or by a caught
\* error, the lines of the file are exactly the URLs of the cache.
C4_DiskEqualsCacheAfterEveryCycle == CycleEnded => disk = processed_urls

\* C4 as amended: at the end of every cycle that completes normally the lines
\* of the file are exactly the URLs of the cache.
C4_DiskEqualsCacheAfterCompletedCycle ==
    (pc = "ended" /\ outcome = "completed") => disk = processed_urls

\* a completed cycle that recorded two URLs
C4_Witness == pc = "ended" /\ outcome = "completed" /\ Cardinality(processed_urls) = 2

\* C5: a record whose content hash was in the cache at a completed save is
\* skipped by every later filter of FreeAPIMonitor, also after a restart.
C5_SavedHashSkippedAfterRestart ==
    (variant = "FM" /\ pc \in {"analyze", "dispatch", "save"}) =>
        \A i \in DOMAIN new_results : ContentHash(new_results[i]) \notin hashesAtSave

\* C6: once the loop over alerts is over, the keys of every record of the
\* batch are in the cache, alert or not; and no record accepted in an earlier
\* cycle of the run is accepted (analysed) again.
C6_AcceptedRecordsRecorded ==
    /\ pc \in {"save", "ended"} => \A i \in DOMAIN new_results : KeysRecorded(new_results[i])
    /\ \A i \in DOMAIN new_results : new_results[i] \notin seenBefore

\* a record for which analyze returned None arrives again in a later cycle
C6_Witness ==
    /\ pc = "analyze"
    /\ \E i \in DOMAIN all_results :
         all_results[i] \in seenBefore /\ Analyzer(all_results[i]) = None

\* C7: in a cycle with a failed dispatch every alert of the batch is still
\* handed to send_alert, the cycle reaches the save, the records of the failed
\* alerts are in the cache, and no alert is dispatched for a record whose
\* dispatch failed in an earlier cycle of the run.
C7_DispatchFailureContained ==
    /\ (pc \in {"save", "ended"} /\ DispatchFailed) =>
          /\ Len(sent) = Len(alerts)
          /\ outcome \in {"running", "completed", "save_error"}
          /\ \A j \in DOMAIN sent : KeysRecorded(sent[j].entry)
    /\ \A j \in DOMAIN sent : sent[j].entry \notin failedBefore

\* the first of two alerts failed, the second was sent, and the cycle completed
C7_Witness ==
    /\ pc = "ended"
    /\ outcome = "completed"
    /\ Len(sent) = 2
    /\ sent[1].result \in {"failed", "raised"}
    /\ sent[2].result = "sent"

\* every record of the batch went through the dedup filter
Deduplicated(r) ==
    \/ r \in Range(new_results)
    \/ UrlOf(r) \in processed_urls
    \/ variant = "FM" /\ ContentHash(r) \in processed_hashes
    \/ variant = "DM" /\ UrlOf(r) = ""

\* C8: a cycle in which a collaborator call raised is not aborted: the
\* records the other collaborators returned are deduplicated and analysed
\* (stated for the cycles in which another collaborator had returned a record).
C8_RaisingCollaboratorIsolated ==
    (pc = "ended" /\ raised /\ all_results # <<>>) =>
        /\ outcome # "fetch_error"
        /\ \A i \in DOMAIN all_results : Deduplicated(all_results[i])

\* C9: no exception of a cycle reaches start(), and a cycle that ended in a
\* caught error is followed by another cycle (while cycles are left to run).
C9_FailedCycleFollowedByNext ==
    /\ [](pc # "stopped")
    /\ (pc = "ended" /\ outcome \in {"fetch_error", "save_error"} /\ cycles < MaxCycles)
          ~> (outcome = "running")

\* DarkwebMonitor runs its second cycle although the first one never reached
\* line 92, i.e. was ended by a collaborator that raised
C9_Witness ==
    /\ variant = "DM"
    /\ runs = 0
    /\ cycles = 2
    /\ pc = "fetch"
    /\ discovery_counter = NoAttr

\* C10: the alerts handed to send_alert in a cycle are exactly the alerts
\* batch_analyze returned, once each and in batch order, and none of them
\* belongs to a record of an earlier cycle of the run.
C10_EachAlertDispatchedOnce ==
    /\ pc = "dispatch" => SentAlerts = SubSeq(alerts, 1, ai - 1)
    /\ pc \in {"mark", "save", "ended"} => SentAlerts = alerts
    /\ \A j \in DOMAIN sent : sent[j].entry \notin seenBefore

\* two alerts were handed over in order although the first dispatch failed
C10_Witness ==
    /\ pc \in {"mark", "save"}
    /\ Len(alerts) = 2
    /\ SentAlerts = alerts
    /\ sent[1].result # "sent"

\* the records of all_results[1..i-1] and of the earlier cycles of the run
\* do not hold the content hash of all_results[i]
FirstArrival(i) ==
    /\ \A r \in seenBefore : ContentHash(r) # ContentHash(all_results[i])
    /\ \A j \in 1..(i - 1) : ContentHash(all_results[j]) # ContentHash(all_results[i])

\* C11: a record without a url (missing or empty) is, on its first arrival,
\* accepted by the filter of either orchestrator and so passed to the analyzer.
C11_UrllessRecordProcessed ==
    pc = "analyze" =>
        \A i \in DOMAIN all_results :
            (UrlOf(all_results[i]) = "" /\ FirstArrival(i)) =>
                all_results[i] \in Range(new_results)

\* a call of the method op has returned
Returned(op) == "op" \in DOMAIN ret /\ ret.op = op

RegDomains == Get(args.targets, "domains", <<>>)

RegKeywords == Get(args.targets, "keywords", <<>>)

RegCompanies == Get(args.targets, "company_names", <<>>)

\* the registered domains that occur in the text of the entry, case-insensitively
DomainHits == {i \in DOMAIN RegDomains : IsSubstr(Lower(RegDomains[i]), CombinedText(args.entry))}

\* C12: when the text contains a registered domain, the matcher returns the
\* first such domain of the registry with category "Domain" and confidence
\* 100, whatever keywords or company names match as well.
C12_DomainHitWins ==
    (Returned("_find_best_match") /\ DomainHits # {}) =>
        ret.value = Match(RegDomains[Min(DomainHits)], "Domain", 100)

\* both registered domains and a registered keyword occur in the text, the
\* second domain of the registry first
C12_Witness ==
    /\ Returned("_find_best_match")
    /\ Cardinality(DomainHits) = 2
    /\ \E i \in DOMAIN RegKeywords : IsSubstr(Lower(RegKeywords[i]), CombinedText(args.entry))
    /\ ret.value.term = "b.jp"
    /\ args.entry.raw_text = "Toyota at a.jp and b.jp"

\* some registered term occurs in the text as an exact substring
ExactHit ==
    LET text == CombinedText(args.entry)
    IN  \/ DomainHits # {}
        \/ \E i \in DOMAIN RegKeywords : IsSubstr(Lower(RegKeywords[i]), text)
        \/ \E i \in DOMAIN RegCompanies : IsSubstr(Lower(RegCompanies[i]), text)

\* the approximate scores the matcher computes for the text
FuzzyScores ==
    LET text == CombinedText(args.entry)
    IN  {partial_ratio(Lower(RegKeywords[i]), text) :
            i \in {j \in DOMAIN RegKeywords : Len(RegKeywords[j]) > 5}}
        \cup {partial_ratio(Lower(RegCompanies[i]), text) :
            i \in {j \in DOMAIN RegCompanies : ~is_japanese(RegCompanies[j])}}

\* C13: analyze returns an alert exactly when the matcher returns a result
\* with confidence at least 85; the alert carries that confidence, which lies
\* in 85..100; without an exact substring and without an approximate score
\* of 85 the matcher returns nothing and there is no alert.
C13_AlertIffMatchAtLeast85 ==
    Returned("analyze") =>
        \A m \in {find_best_match(args.targets, CombinedText(args.entry))} :
            /\ (ret.value # None) <=> (m # None /\ m.score >= 85)
            /\ ret.value # None =>
                  /\ ret.value.confidence_score = m.score
                  /\ ret.value.confidence_score \in 85..100
            /\ (~ExactHit /\ \A sc \in FuzzyScores : sc < 85) => (m = None /\ ret.value = None)

\* no alert for a text whose best approximate score is a near miss
C13_Witness ==
    /\ Returned("analyze")
    /\ ret.value = None
    /\ ~ExactHit
    /\ \E sc \in FuzzyScores : sc \in 70..84

\* C14: a registered term with Japanese characters is returned by the
\* matcher only when it occurs verbatim in the text, and then with
\* confidence 100.
C14_JapaneseTermOnlyVerbatim ==
    (Returned("_find_best_match") /\ ret.value # None /\ is_japanese(ret.value.term)) =>
        /\ IsSubstr(ret.value.term, CombinedText(args.entry))
        /\ ret.value.score = 100

\* some pattern of the tier matches the text of the entry
TierMatches(tier) ==
    \E i \in DOMAIN severity_patterns[tier] :
        PatternSearch(severity_patterns[tier][i], CombinedText(args.entry))

\* C15: the classifier returns one of HIGH, MEDIUM, LOW, INFO, and it is the
\* highest tier that has a matching pattern, INFO when none has.
C15_HighestMatchingTier ==
    Returned("_determine_severity") =>
        /\ ret.value \in {"HIGH", "MEDIUM", "LOW", "INFO"}
        /\ ret.value = "HIGH" <=> TierMatches("HIGH")
        /\ ret.value = "MEDIUM" <=> (~TierMatches("HIGH") /\ TierMatches("MEDIUM"))
        /\ ret.value = "LOW" <=>
              (~TierMatches("HIGH") /\ ~TierMatches("MEDIUM") /\ TierMatches("LOW"))

\* a text with a HIGH and a LOW pattern is classified HIGH
C15_Witness ==
    /\ Returned("_determine_severity")
    /\ TierMatches("HIGH")
    /\ TierMatches("LOW")
    /\ ret.value = "HIGH"

\* the call of EnhancedAnalyzer.analyze has gone through the priority gate
Gated == "basic" \in DOMAIN ret /\ ret.at # "gate"

\* the gate returned None
Rejected == Gated /\ ret.at = "done" /\ "value" \in DOMAIN ret /\ ret.value = None

Thresholds == Get(args.alert_config, "alert_thresholds", <<>>)

\* the policy the claim describes: "{priority}_PRIORITY" when the matched term
\* has a priority and that key exists, otherwise DEFAULT
PolicyKey ==
    IF ret.priority # <<>> /\ (ret.priority[1] \o "_PRIORITY") \in DOMAIN Thresholds
    THEN ret.priority[1] \o "_PRIORITY"
    ELSE "DEFAULT"

Policy == Get(Thresholds, PolicyKey, <<>>)

MinConfidence == Get(Policy, "confidence_score", 85)

AllowList == IF "severity_levels" \in DOMAIN Policy THEN Range(Policy.severity_levels)
             ELSE {"HIGH", "MEDIUM"}

\* C16: the Priority Filter rejects an alert if and only if the classifier's
\* confidence is below the minimum of the resolved policy or the classifier's
\* severity is not in that policy's allow-list (defaults 85 and {HIGH, MEDIUM})
C16_GateRejectsIffBelowPolicy ==
    Gated => (Rejected <=> \/ ret.basic.confidence_score < MinConfidence
                           \/ ret.basic.severity \notin AllowList)

\* a LOW-severity domain hit suppressed under the default policy with default settings
C16_Witness ==
    /\ Rejected
    /\ args.entry.raw_text = "discussion forum thread about sony.co.jp"
    /\ ret.basic.category = "Domain"
    /\ ret.basic.confidence_score = 100
    /\ ret.basic.severity = "LOW"
    /\ PolicyKey = "DEFAULT"
    /\ Policy = <<>>

\* the base source name of the record
BaseSource == SplitFirst(Get(args.entry, "source", ""), "-")

ResolvedReliability == get_source_reliability(args.alert_config, BaseSource)

\* C17: the source-reliability step turns MEDIUM into LOW when the resolved
\* reliability of the base source name is below 0.7 (0.5 when unmapped), and
\* changes no other severity: HIGH, LOW and INFO stay, nothing becomes INFO
C17_ReliabilityLowersOnlyMedium ==
    [][At("source") =>
          ret'.basic_result.severity =
              IF ResolvedReliability < 70 /\ ret.basic_result.severity = "MEDIUM"
              THEN "LOW"
              ELSE ret.basic_result.severity]_vars

\* a MEDIUM alert of a source of reliability 0.3 has become LOW at the source step
C17_Witness ==
    /\ At("metadata")
    /\ ret.category = <<>>
    /\ ret.basic.severity = "MEDIUM"
    /\ ResolvedReliability = 30
    /\ ret.basic_result.severity = "LOW"
    /\ ret.basic_result.reliability_adjusted

\* analyze returned an alert
ReturnedAlert ==
    /\ Returned("EnhancedAnalyzer.analyze")
    /\ "value" \in DOMAIN ret
    /\ ret.value # None

\* the rules of the category resolved for the matched term
CategoryRules ==
    IF ret.category = <<>> THEN <<>>
    ELSE Get(Get(args.alert_config, "category_rules", <<>>), ret.category[1], <<>>)

HasAlertAll == Get(CategoryRules, "alert_all", FALSE)

\* C18: when the category of the matched term has an alert_all rule and the
\* alert passed the priority gate, the alert that analyze returns has severity
\* HIGH and category_override set, whatever the classifier's severity and the
\* reliability of the source
C18_AlertAllForcesHigh ==
    (ReturnedAlert /\ HasAlertAll) =>
        /\ ret.value.severity = "HIGH"
        /\ Get(ret.value, "category_override", FALSE)

\* a LOW alert of an unreliable source, returned HIGH under an alert_all rule
C18_Witness ==
    /\ ReturnedAlert
    /\ HasAlertAll
    /\ ret.basic.severity = "LOW"
    /\ ResolvedReliability < 70
    /\ ret.value.severity = "HIGH"
    /\ ret.value.category_override

\* the focus and extra keywords of the category that occur in raw_text,
\* whatever their case
OccurringKeywords ==
    {k \in Range(Get(CategoryRules, "focus_keywords", <<>>))
              \cup Range(Get(CategoryRules, "extra_keywords", <<>>)) :
        IsSubstr(Lower(k), Lower(Get(args.entry, "raw_text", "")))}

\* one tier up, HIGH staying HIGH
OneTierUp(severity) ==
    IF severity = "LOW" THEN "MEDIUM"
    ELSE IF severity = "MEDIUM" THEN "HIGH"
    ELSE severity

\* C19 as stated: whenever a keyword of the category occurs in raw_text the
\* category step moves LOW to MEDIUM, MEDIUM to HIGH and leaves HIGH, never two
\* tiers in one pass; with no keyword and no alert_all rule it leaves severity
C19_CategoryStepOneTier ==
    [][At("category") =>
          /\ (OccurringKeywords # {} /\ ret.basic_result.severity \in {"LOW", "MEDIUM", "HIGH"})
                => ret'.basic_result.severity = OneTierUp(ret.basic_result.severity)
          /\ (OccurringKeywords = {} /\ ~HasAlertAll)
                => ret'.basic_result.severity = ret.basic_result.severity]_vars

\* C19 amended: without an alert_all rule, the category step moves LOW to
\* MEDIUM and MEDIUM to HIGH and leaves HIGH and INFO when a keyword of the
\* category occurs in raw_text, however many occur, and leaves severity when
\* none occurs; with an alert_all rule the step ends at HIGH
C19_KeywordsOneTierWithoutAlertAll ==
    [][At("category") =>
          ret'.basic_result.severity =
              IF HasAlertAll THEN "HIGH"
              ELSE IF OccurringKeywords # {} THEN OneTierUp(ret.basic_result.severity)
              ELSE ret.basic_result.severity]_vars

\* two keywords of the category occur and a LOW alert left the category step MEDIUM
C19_Witness ==
    /\ At("source")
    /\ ~HasAlertAll
    /\ Cardinality(OccurringKeywords) >= 2
    /\ ret.basic.severity = "LOW"
    /\ ret.basic_result.severity = "MEDIUM"

ChannelConfigured == Truthy(args.slack_webhook_url)

\* the one request got a response that raise_for_status accepts
Delivered == "status" \in DOMAIN ret.outcome /\ ~RaisesForStatus(ret.outcome.status)

\* the lines were written to the console, one after the other
Printed(lines) ==
    \E i \in 1..Len(ret.console) : SubSeq(ret.console, i, i + Len(lines) - 1) = lines

\* C20: send_alert posts at most one request and never a second one; without
\* a channel it posts nothing, prints the message and returns True; with a
\* channel it has posted exactly one request when it returns, and returns
\* True if that request succeeded and False, without raising, if it failed
C20_OneAttemptNoRetry ==
    /\ "posts" \in DOMAIN ret => Len(ret.posts) <= 1
    /\ ("posts" \in DOMAIN ret /\ At("done")) =>
          /\ Returned("AlertEngine.send_alert")
          /\ "raised" \notin DOMAIN ret
          /\ IF ChannelConfigured
             THEN /\ Len(ret.posts) = 1
                  /\ ret.value = Delivered
             ELSE /\ ret.posts = <<>>
                  /\ ret.value = TRUE
                  /\ Printed(format_alert_message(args.alert_data, args.utcnow))

\* the webhook answered 500 to the one request and send_alert returned False
C20_Witness ==
    /\ Returned("AlertEngine.send_alert")
    /\ ChannelConfigured
    /\ Len(ret.posts) = 1
    /\ ret.outcome = [status |-> 500]
    /\ ret.value = FALSE

\* the snippet in the message that send_alert formatted
Snippet == ret.message[12]

SnippetText == Get(args.alert_data, "raw_text", "")

SnippetTerm == Get(args.alert_data, "matched_term", "N/A")

\* the positions, from 1, where the term occurs in raw_text whatever the case
Occurrences ==
    {i \in 1..(Len(SnippetText) - Len(SnippetTerm) + 1) :
        Lower(SubSeq(SnippetText, i, i + Len(SnippetTerm) - 1)) = Lower(SnippetTerm)}

\* the snippet around the occurrence at position p: 200 characters of context
\* on each side, an ellipsis on a side iff the text is cut there
Around(p) ==
    LET from == IF p - 200 > 1 THEN p - 200 ELSE 1
        to == IF p + Len(SnippetTerm) - 1 + 200 < Len(SnippetText)
              THEN p + Len(SnippetTerm) - 1 + 200 ELSE Len(SnippetText)
    IN  (IF from > 1 THEN "..." ELSE "")
          \o SubSeq(SnippetText, from, to)
          \o (IF to < Len(SnippetText) THEN "..." ELSE "")

\* C21: the snippet is the placeholder for an empty raw_text; else the text
\* from up to 200 characters before the first occurrence of the term (found
\* whatever the case) to up to 200 characters after it, with "..." on each
\* side that was cut; else the whole raw_text up to 400 characters, or its
\* first 400 characters and "..."; it holds at most 400 + len(term)
\* characters of raw_text
C21_SnippetAroundFirstOccurrence ==
    "message" \in DOMAIN ret =>
        /\ Snippet = IF SnippetText = "" THEN "No content available"
                     ELSE IF Occurrences # {} THEN Around(Min(Occurrences))
                     ELSE IF Len(SnippetText) <= 400 THEN SnippetText
                     ELSE SubSeq(SnippetText, 1, 400) \o "..."
        /\ Len(Snippet) <= 400 + Len(SnippetTerm) + 6 \/ SnippetText = ""

\* a term with 230 characters on each side: 200 are kept on each side, between two ellipses
C21_Witness ==
    /\ "message" \in DOMAIN ret
    /\ Len(SnippetText) = 464
    /\ Min(Occurrences) = 231
    /\ Snippet = "..." \o SubSeq(SnippetText, 31, 434) \o "..."

\* C22: a record that lacks title, raw_text, source, url or timestamp is never
\* fatal: the Priority Filter takes the default for the missing field and its
\* analyze completes without raising
C22_IncompleteRecordNeverFatal == "raised" \notin DOMAIN ret

\* what analyze returned or raised
Outcome == IF "raised" \in DOMAIN ret THEN [raised |-> ret.raised] ELSE [value |-> ret.value]

\* the settings of working_hours considered: none, disabled, office hours
\* without week-ends, a night window with week-ends
WorkingHoursConfigs ==
    { <<>>, [enabled |-> FALSE],
      [enabled |-> TRUE, start |-> "09:00", end |-> "18:00", weekend_alerts |-> FALSE],
      [enabled |-> TRUE, start |-> "22:00", end |-> "24:00", weekend_alerts |-> TRUE] }

AllClocks == {[weekday |-> d, hour |-> h] : d \in {4, 5}, h \in {8, 9, 17, 18, 23}}

\* the alert configuration with another working_hours setting
WithWorkingHours(alert_config, wh) ==
    [k \in DOMAIN alert_config \cup {"working_hours"} |->
        IF k = "working_hours" THEN wh ELSE alert_config[k]]

\* an outcome without its working-hours flag
Unflagged(result) ==
    IF "value" \in DOMAIN result /\ result.value # None
    THEN [value |-> [result.value EXCEPT !.enhanced_analysis =
                        [k \in DOMAIN @ \ {"working_hours_alert"} |-> @[k]]]]
    ELSE result

\* C23: for a fixed record, registry and policy, whether analyze emits an
\* alert and every field of the alert but the working-hours flag are the same
\* for every wall-clock time and every working_hours setting (the basic
\* analysis, ret.basic, reads neither the clock nor the alert configuration)
C23_WorkingHoursInformationalOnly ==
    (At("done") /\ "basic" \in DOMAIN ret) =>
        /\ Outcome = enhance(args.targets, args.alert_config, ret.basic, args.now)
        /\ \A wh \in WorkingHoursConfigs, now \in AllClocks :
              Unflagged(enhance(args.targets, WithWorkingHours(args.alert_config, wh),
                                ret.basic, now))
                = Unflagged(Outcome)

\* an alert emitted on a Sunday with office hours configured: the flag is
\* False, and True on a Wednesday morning
C23_Witness ==
    /\ ReturnedAlert
    /\ args.now.weekday = 6
    /\ ~ret.value.enhanced_analysis.working_hours_alert
    /\ enhance(args.targets, args.alert_config, ret.basic,
               [weekday |-> 2, hour |-> 10]).value.enhanced_analysis.working_hours_alert

\* no exact match makes the matcher return early: no registered domain and no
\* keyword occurs in the text, and no Japanese company name occurs verbatim
NoEarlyReturn ==
    LET text == CombinedText(args.entry)
    IN  /\ DomainHits = {}
        /\ \A i \in DOMAIN RegKeywords : ~IsSubstr(Lower(RegKeywords[i]), text)
        /\ \A i \in DOMAIN RegCompanies :
              is_japanese(RegCompanies[i]) => ~IsSubstr(RegCompanies[i], text)

\* the scored candidates in the order the matcher meets them: the keywords
\* longer than 5 characters, then the company names that are not Japanese
Candidates ==
    LET text == CombinedText(args.entry)
    IN  {[at |-> i, term |-> RegKeywords[i], category |-> "Keyword",
          score |-> partial_ratio(Lower(RegKeywords[i]), text)] :
            i \in {j \in DOMAIN RegKeywords : Len(RegKeywords[j]) > 5}}
        \cup {[at |-> Len(RegKeywords) + i, term |-> RegCompanies[i], category |-> "Company Name",
               score |-> partial_ratio(Lower(RegCompanies[i]), text)] :
            i \in {j \in DOMAIN RegCompanies : ~is_japanese(RegCompanies[j])}}

\* the candidates of maximal score
Best(cands) == {c \in cands : \A d \in cands : d.score <= c.score}

\* C24: when no exact match returns early, the matcher returns the scored
\* candidate of maximal score, the earliest met among those of equal maximal
\* score, with its category, provided that score is at least 85, and nothing
\* otherwise
C24_EarliestOfMaximalScore ==
    (Returned("_find_best_match") /\ NoEarlyReturn) =>
        \A best \in {Best(Candidates)} :
            IF best = {} \/ \A c \in best : c.score < 85
            THEN ret.value = None
            ELSE \E c \in best :
                    /\ \A d \in best : c.at <= d.at
                    /\ ret.value = Match(c.term, c.category, c.score)

\* two candidates share the maximal score 86, a keyword and a company name met
\* later: the keyword is returned
C24_Witness ==
    /\ Returned("_find_best_match")
    /\ NoEarlyReturn
    /\ args.entry = [raw_text |-> "hitach1 user list"]
    /\ ret.value = Match("hitachy", "Keyword", 86)
    /\ \E c \in Candidates : c.term = "hitachu" /\ c.score = 86

\* C25: loading the file that the save wrote yields exactly the set of URLs
\* that was saved, for every set of URLs the orchestrator can record
C25_LoadOfSaveIsIdentity ==
    Returned("_load_processed_urls") => ret.value = args.processed_urls

\* the fields that the base analyzer computes (analyzer.py:93-101)
AnalyzerKeys == {"matched_term", "category", "confidence_score", "severity", "alert"}

\* the fields that the Priority Filter adds
MetadataKeys ==
    {"category_override", "reliability_adjusted", "source_reliability",
     "target_priority", "target_category", "enhanced_analysis"}

\* alert a with every field of alert b but severity, and only metadata fields more
Framed(a, b) ==
    /\ \A k \in DOMAIN b \ {"severity"} : k \in DOMAIN a /\ a[k] = b[k]
    /\ "severity" \in DOMAIN a
    /\ DOMAIN a \ DOMAIN b \subseteq MetadataKeys

\* C26: the alert of the base analyzer holds every field of the record that
\* the analyzer does not compute, as it is in the record; the Priority Filter
\* keeps confidence_score, matched_term, category and the fields copied from
\* the record at every statement, changes only severity and adds only
\* metadata fields
C26_FilterChangesOnlySeverity ==
    "basic" \in DOMAIN ret =>
        /\ \A k \in DOMAIN args.entry \ AnalyzerKeys :
              k \in DOMAIN ret.basic /\ ret.basic[k] = args.entry[k]
        /\ Framed(ret.basic_result, ret.basic)
        /\ ReturnedAlert => Framed(ret.value, ret.basic)

\* an alert for a record of the simulated producer, returned with another
\* severity than the classifier's and with its url, title and timestamp
C26_Witness ==
    /\ ReturnedAlert
    /\ "url" \in DOMAIN args.entry
    /\ ret.value.severity # ret.basic.severity
    /\ ret.value.url = args.entry.url
    /\ ret.value.timestamp = args.entry.timestamp
    /\ ret.value.confidence_score = ret.basic.confidence_score

\* C27: the reliability score in the enhanced metadata of an emitted alert is
\* the alert's source_reliability, the score resolved for the base source
\* name of the record and used by the source step
C27_MetadataReliabilityIsResolved ==
    ReturnedAlert =>
        /\ ret.value.source_reliability = ResolvedReliability
        /\ ret.value.enhanced_analysis.source_reliability = ret.value.source_reliability

\* C28: the final severity of every alert the Priority Filter emits, after the
\* category rules and the source step, belongs to the severity allow-list of
\* the threshold policy that admitted the alert
C28_FinalSeverityInAllowList ==
    ReturnedAlert => ret.value.severity \in AllowList

\* C28 (as the code has it): the gate is applied once, to the classifier's
\* severity: that severity belongs to the allow-list of the admitting policy,
\* and the severity of the emitted alert leaves the allow-list only as LOW set
\* by the source step or as a severity raised by the category rules
C28_AdmittedSeverityInAllowList ==
    ReturnedAlert =>
        /\ ret.basic.severity \in AllowList
        /\ ret.value.severity \notin AllowList =>
               \/ /\ ret.value.severity = "LOW"
                  /\ Get(ret.value, "reliability_adjusted", FALSE)
               \/ /\ CategoryRules # <<>>
                  /\ ret.value.severity \in {"HIGH", Boost(ret.basic.severity)}

\* a MEDIUM alert admitted by the default policy and emitted as LOW
C28_Witness ==
    /\ ReturnedAlert
    /\ Policy = <<>>
    /\ AllowList = {"HIGH", "MEDIUM"}
    /\ ret.basic.severity = "MEDIUM"
    /\ ret.value.severity = "LOW"
    /\ ret.value.reliability_adjusted

\* the fields of an alert that a producer may already have written into the record
SuppliedKeys == {"matched_term", "category", "confidence_score", "severity"}

\* the record without those fields
Bare(entry) == [k \in DOMAIN entry \ SuppliedKeys |-> entry[k]]

\* C29: matched_term, category and confidence_score of an alert are the
\* matcher's values for the text of the record and its severity is the
\* classifier's (the Priority Filter keeps the first three); what the Priority
\* Filter returns or raises is what it returns or raises for the record
\* without its own matched_term, category, confidence_score and severity
C29_ComputedFieldsOverrideRecord ==
    /\ "basic" \in DOMAIN ret =>
          \A m \in {find_best_match(args.targets, CombinedText(args.entry))} :
              /\ m # None
              /\ ret.basic.matched_term = m.term
              /\ ret.basic.category = m.category
              /\ ret.basic.confidence_score = m.score
              /\ ret.basic.severity = determine_severity(CombinedText(args.entry))
    /\ ReturnedAlert =>
          \A k \in SuppliedKeys \ {"severity"} : ret.value[k] = ret.basic[k]
    /\ Returned("EnhancedAnalyzer.analyze") =>
          Outcome = enhanced_analyze(args.targets, args.alert_config, Bare(args.entry), args.now)

\* a record of the simulated producer, written with matched_term Honda,
\* category simulated and severity HIGH, whose text names the keyword toyota
\* only: the alert is for toyota, and the Priority Filter rejects it on the
\* classifier's severity LOW
C29_Witness ==
    /\ Rejected
    /\ SuppliedKeys \cap DOMAIN args.entry = {"matched_term", "category", "severity"}
    /\ args.entry.matched_term = "Honda"
    /\ args.entry.severity = "HIGH"
    /\ ret.basic.matched_term = "toyota"
    /\ ret.basic.category = "Keyword"
    /\ ret.basic.severity = "LOW"
    /\ AllowList = {"HIGH", "MEDIUM"}

\* a record, or an alert, that get_external_results produced
IsSimulated(r) == Get(r, "source", "") = SourceOf("simulated")

\* the records of a list are all simulated, or none of them is
Unmixed(records) ==
    \/ \A i \in DOMAIN records : IsSimulated(records[i])
    \/ \A i \in DOMAIN records : ~IsSimulated(records[i])

\* the collected list, the list that is analysed, the alerts and the alerts
\* dispatched are each all simulated or all real
BatchesUnmixed ==
    /\ Unmixed(all_results)
    /\ Unmixed(new_results)
    /\ Unmixed(alerts)
    /\ Unmixed([i \in DOMAIN sent |-> sent[i].entry])

\* a step that leaves simulated records in the collected list either leaves
\* the list as it was or is the fallback call made on an empty list
FallbackOnEmpty ==
    (\E i \in DOMAIN all_results' : IsSimulated(all_results'[i]))
        => \/ all_results' = all_results
           \/ all_results = <<>> /\ AtCall("simulated")

\* C30: in FreeAPIMonitor simulated records enter a cycle's batch only when
\* the real collaborators of the cycle have contributed no record (the
\* collected list is empty when the fallback is called), so that no batch
\* holds simulated records next to real ones, neither when it is collected
\* nor when it is analysed or dispatched
C30_SimulatedOnlyInEmptyCycle ==
    /\ [](variant = "FM" => BatchesUnmixed)
    /\ [][variant = "FM" => FallbackOnEmpty]_vars

\* a cycle of FreeAPIMonitor in which the Twitter monitor raised and no
\* collaborator returned a record: the simulated record is collected,
\* analysed and dispatched
C30_Witness ==
    /\ variant = "FM"
    /\ raised
    /\ Len(all_results) = 1
    /\ IsSimulated(all_results[1])
    /\ Len(sent) = 1
    /\ IsSimulated(sent[1].entry)

====
